---- MODULE Spec2Model ----
(***************************************************************************)
(* Model of the knight chess server's socket gateway: presence, rooms,     *)
(* the user-to-room index, the per-game lazy clock, the move handler and   *)
(* the rematch and invite protocols.                                       *)
(*                                                                         *)
(* The chess rules engine (chess.js) is an external library.  A position   *)
(* is abstracted to the side to move plus the terminal predicates the      *)
(* gateway queries; a legal move flips the side to move and lands on a     *)
(* position whose predicates are chosen nondeterministically.              *)
(***************************************************************************)
EXTENDS Integers, Sequences, FiniteSets, TLC

(***************************************************************************)
(* Bounds of the model.                                                    *)
(***************************************************************************)
\* How many times the wall clock may advance (by TickMs each time).
MaxTicks == 2
\* How many invite:send handlers may be suspended in the friendship lookup.
MaxInFlight == 1

(***************************************************************************)
(* Program constants.                                                      *)
(***************************************************************************)
INITIAL_CLOCK_MS == 3 * 60 * 1000
\* game.lastTickAt = null
NoTick == -1

\* One advance of Date.now(): two thirds of a side's budget, so that one
\* advance leaves a clock running and a second one overshoots it.
TickMs == (2 * INITIAL_CLOCK_MS) \div 3
\* Date.now() at process start (any positive value).
StartNow == TickMs

Users == {"u1", "u2", "u3"}
\* Connections; u1 has two (multi-tab).  socket.data.auth.userId:
Sockets == {"s1", "s2", "s3", "s4"}
SocketUser(s) == CASE s = "s1" -> "u1" [] s = "s2" -> "u1" [] s = "s3" -> "u2" [] OTHER -> "u3"

\* Normalised room ids that can occur ("C" is only ever drawn at random).
RoomIds == {"A", "B", "C"}
\* Room ids as a client sends them: "" is absent/blank (a random id is drawn).
RawRoomIds == {"", "a", " A ", "B", "b ", "c"}

\* trim().toUpperCase() of a non-blank raw id
UpperTrim(raw) ==
    CASE raw = "a" -> "A" [] raw = " A " -> "A" [] raw = "b " -> "B" [] raw = "c" -> "C" [] OTHER -> raw

\* normalizeRoomId: the set of ids it may return (a singleton unless the id
\* is drawn at random).
normalizeRoomId(raw) == IF raw # "" THEN {UpperTrim(raw)} ELSE RoomIds

(***************************************************************************)
(* Rules engine (chess.js), abstracted.                                    *)
(***************************************************************************)
Colors == {"w", "b"}
Opposite(c) == IF c = "w" THEN "b" ELSE "w"

\* The terminal predicates of a position, as chess.js can combine them.
Kinds == {"normal", "check", "checkmate", "checkmate_fifty", "stalemate",
          "stalemate_insufficient", "insufficient", "insufficient_threefold",
          "threefold", "fifty"}

isCheckmate(chess) == chess.kind \in {"checkmate", "checkmate_fifty"}
isStalemate(chess) == chess.kind \in {"stalemate", "stalemate_insufficient"}
isInsufficientMaterial(chess) == chess.kind \in {"stalemate_insufficient", "insufficient", "insufficient_threefold"}
isThreefoldRepetition(chess) == chess.kind \in {"insufficient_threefold", "threefold"}
isDraw(chess) == \/ chess.kind \in {"fifty", "checkmate_fifty"}
                 \/ isStalemate(chess)
                 \/ isInsufficientMaterial(chess)
                 \/ isThreefoldRepetition(chess)
isCheck(chess) == chess.kind \in {"check", "checkmate", "checkmate_fifty"}

\* new Chess()
NewChess == [turn |-> "w", kind |-> "normal"]

\* Squares as a client sends them, and payload.from?.trim().toLowerCase()
RawSquares == {"", "  ", "e2", " E2 ", "zz", "a1", "a2", "a3", "a4", "a5", "a6",
               "a7", "a8", "b1", " B2 "}
TrimLower(raw) == CASE raw = "  " -> "" [] raw = " E2 " -> "e2" [] raw = " B2 " -> "b2" [] OTHER -> raw

\* The engine is deterministic: the move decides the position it leads to.
\* In this abstraction the piece on e2 has a legal move to each of these
\* squares, and the target square decides the predicates of the new position.
Target(to) ==
    CASE to = "a1" -> "normal" [] to = "a2" -> "check" [] to = "a3" -> "checkmate"
      [] to = "a4" -> "checkmate_fifty" [] to = "a5" -> "stalemate"
      [] to = "a6" -> "stalemate_insufficient" [] to = "a7" -> "insufficient"
      [] to = "a8" -> "insufficient_threefold" [] to = "b1" -> "threefold"
      [] to = "b2" -> "fifty" [] OTHER -> "none"

\* chess.move({from, to}): the set holding the position it returns; empty
\* when the library throws (invalid square, no such legal move, no legal
\* move at all).
ChessMove(chess, from, to) ==
    IF from = "e2" /\ Target(to) # "none" /\ ~isCheckmate(chess) /\ ~isStalemate(chess)
    THEN {[turn |-> Opposite(chess.turn), kind |-> Target(to)]}
    ELSE {}

(***************************************************************************)
(* State.                                                                  *)
(***************************************************************************)
VARIABLES
    now,                      \* Date.now()
    rooms,                    \* Map roomId -> Room
    roomByUserId,             \* Map userId -> roomId
    socketsByUserId,          \* Map userId -> Set of socket ids
    onlineUsers,              \* Map userId -> {userId, username} (its keys)
    rematchAcceptedByRoomId,  \* Map roomId -> Set of userIds
    connected,                \* the sockets that are open
    joined,                   \* socket -> the rooms (channels) it is subscribed to
    inFlight,                 \* invite:send handlers suspended at await areFriends
    last                      \* the handler that ran last: its acks and emissions

vars == <<now, rooms, roomByUserId, socketsByUserId, onlineUsers,
          rematchAcceptedByRoomId, connected, joined, inFlight, last>>

(***************************************************************************)
(* Maps with a varying key set.                                            *)
(***************************************************************************)
MapSet(m, k, v) == [x \in (DOMAIN m) \cup {k} |-> IF x = k THEN v ELSE m[x]]
MapDelete(m, k) == [x \in (DOMAIN m) \ {k} |-> m[x]]
EmptyMap == [x \in {} |-> {}]

SeqRange(s) == {s[i] : i \in 1..Len(s)}
SeqRemove(s, e) == SelectSeq(s, LAMBDA x : x # e)
\* Faulty variant: setting an existing key moves it to the end.
PlayersSetMovesToEnd(players, u) == Append(SeqRemove(players, u), u)

\* Map.set on the ordered players map: an existing key keeps its place.
PlayersSet(players, u) == IF u \in SeqRange(players) THEN players ELSE Append(players, u)

HasGame(room) == room.game # <<>>
GameOf(room) == room.game[1]

(***************************************************************************)
(* Acks and emissions of a handler.                                        *)
(***************************************************************************)
NoData == [kind |-> "none"]
AckOk(data) == [ok |-> TRUE, error |-> "", data |-> data]
AckErr(msg) == [ok |-> FALSE, error |-> msg, data |-> NoData]
Emit(ev, to, data) == [ev |-> ev, to |-> to, data |-> data]
Handled(ev, s, arg, acks, out) ==
    [ev |-> ev, sock |-> s, arg |-> arg, done |-> TRUE, acks |-> acks, out |-> out]

(***************************************************************************)
(* Clock and snapshot.                                                     *)
(***************************************************************************)
Max(a, b) == IF a >= b THEN a ELSE b

\* Faulty variant: a stopped clock (lastTickAt null) is charged as if it had
\* run since time 0.
applyActiveClockStoppedRuns(game, t) ==
    IF t - game.lastTickAt <= 0 THEN game
    ELSE [game EXCEPT !.clockMs[game.chess.turn] = Max(0, @ - (t - game.lastTickAt)),
                      !.lastTickAt = t]

\* Faulty variant: the elapsed time is subtracted without the floor at 0.
applyActiveClockNoFloor(game, t) ==
    IF game.lastTickAt = NoTick \/ game.lastTickAt = 0 THEN game
    ELSE IF t - game.lastTickAt <= 0 THEN game
    ELSE [game EXCEPT !.clockMs[game.chess.turn] = @ - (t - game.lastTickAt),
                      !.lastTickAt = t]

\* applyActiveClock(game) at Date.now() = t
applyActiveClock(game, t) ==
    IF game.lastTickAt = NoTick \/ game.lastTickAt = 0 THEN game
    ELSE IF t - game.lastTickAt <= 0 THEN game
    ELSE [game EXCEPT !.clockMs[game.chess.turn] = Max(0, @ - (t - game.lastTickAt)),
                      !.lastTickAt = t]

\* Faulty variant: the agreed draw is not looked at.
SnapStatusNoAgreement(game) ==
    IF game.clockMs["w"] <= 0 THEN "timeout"
    ELSE IF game.clockMs["b"] <= 0 THEN "timeout"
    ELSE IF isCheckmate(game.chess) THEN "checkmate"
    ELSE IF isStalemate(game.chess) THEN "stalemate"
    ELSE IF isInsufficientMaterial(game.chess) THEN "insufficient_material"
    ELSE IF isThreefoldRepetition(game.chess) THEN "threefold_repetition"
    ELSE IF isDraw(game.chess) THEN "draw"
    ELSE "active"

\* Faulty variant: the agreed draw is looked at before the clocks.
SnapStatusDrawFirst(game) ==
    IF game.agreedDraw THEN "draw"
    ELSE IF game.clockMs["w"] <= 0 THEN "timeout"
    ELSE IF game.clockMs["b"] <= 0 THEN "timeout"
    ELSE IF isCheckmate(game.chess) THEN "checkmate"
    ELSE IF isStalemate(game.chess) THEN "stalemate"
    ELSE IF isInsufficientMaterial(game.chess) THEN "insufficient_material"
    ELSE IF isThreefoldRepetition(game.chess) THEN "threefold_repetition"
    ELSE IF isDraw(game.chess) THEN "draw"
    ELSE "active"

\* The status/winnerColor chain of getGameSnapshot.
SnapStatus(game) ==
    IF game.clockMs["w"] <= 0 THEN "timeout"
    ELSE IF game.clockMs["b"] <= 0 THEN "timeout"
    ELSE IF game.agreedDraw THEN "draw"
    ELSE IF isCheckmate(game.chess) THEN "checkmate"
    ELSE IF isStalemate(game.chess) THEN "stalemate"
    ELSE IF isInsufficientMaterial(game.chess) THEN "insufficient_material"
    ELSE IF isThreefoldRepetition(game.chess) THEN "threefold_repetition"
    ELSE IF isDraw(game.chess) THEN "draw"
    ELSE "active"

SnapWinner(game) ==
    IF game.clockMs["w"] <= 0 THEN "b"
    ELSE IF game.clockMs["b"] <= 0 THEN "w"
    ELSE IF game.agreedDraw THEN "none"
    ELSE IF isCheckmate(game.chess) THEN Opposite(game.chess.turn)
    ELSE "none"

\* Whether getGameSnapshot returns a snapshot (not null).
SnapExists(room) ==
    /\ HasGame(room)
    /\ GameOf(room).whiteUserId \in SeqRange(room.players)
    /\ GameOf(room).blackUserId \in SeqRange(room.players)

\* Faulty variant: the clock is folded but never frozen.
SnapRoomNoFreeze(room, t) ==
    IF ~HasGame(room) THEN room
    ELSE [room EXCEPT !.game = <<applyActiveClock(GameOf(room), t)>>]

\* The room after getGameSnapshot(room) ran at time t (it folds the clock and
\* freezes it when the status is not active).
SnapRoom(room, t) ==
    IF ~HasGame(room) THEN room
    ELSE LET g == applyActiveClock(GameOf(room), t) IN
         IF ~(g.whiteUserId \in SeqRange(room.players) /\ g.blackUserId \in SeqRange(room.players))
         THEN [room EXCEPT !.game = <<g>>]
         ELSE IF SnapStatus(g) # "active"
              THEN [room EXCEPT !.game = <<[g EXCEPT !.lastTickAt = NoTick]>>]
              ELSE [room EXCEPT !.game = <<g>>]

\* The value getGameSnapshot(room) returns at time t (when SnapExists(room)).
getGameSnapshot(room, t) ==
    LET g == applyActiveClock(GameOf(room), t) IN
    [kind |-> "snapshot", roomId |-> room.id, fen |-> g.chess, turn |-> g.chess.turn,
     isCheck |-> isCheck(g.chess), status |-> SnapStatus(g), winnerColor |-> SnapWinner(g),
     clockMs |-> g.clockMs, white |-> g.whiteUserId, black |-> g.blackUserId]

isUserOnline(sbu, u) == u \in DOMAIN sbu /\ sbu[u] # {}

\* getRoomState(room)
getRoomState(room, sbu) ==
    [kind |-> "room", roomId |-> room.id,
     players |-> [i \in 1..Len(room.players) |->
                    [userId |-> room.players[i],
                     online |-> isUserOnline(sbu, room.players[i]),
                     color |-> IF HasGame(room) /\ room.players[i] = GameOf(room).blackUserId THEN "b"
                               ELSE IF HasGame(room) /\ room.players[i] = GameOf(room).whiteUserId THEN "w"
                               ELSE "none"]],
     status |-> IF HasGame(room) THEN "playing"
                ELSE IF Len(room.players) = 2 THEN "ready" ELSE "waiting"]

\* broadcastRoomState(io, roomId): what it emits.
broadcastRoomState(rms, sbu, roomId) ==
    IF roomId \in DOMAIN rms
    THEN <<Emit("room:state", roomId, getRoomState(rms[roomId], sbu))>>
    ELSE <<>>

\* broadcastGameState(io, roomId): what it emits; the rooms after it are
\* SnapRooms(rms, roomId, t).
\* Faulty variant: game:over is never emitted.
broadcastGameStateNoOver(rms, roomId, t) ==
    IF roomId \notin DOMAIN rms THEN <<>>
    ELSE IF ~SnapExists(rms[roomId]) THEN <<>>
    ELSE <<Emit("game:state", roomId, getGameSnapshot(rms[roomId], t))>>

\* Faulty variant: game:over is emitted before game:state.
broadcastGameStateOverFirst(rms, roomId, t) ==
    IF roomId \notin DOMAIN rms THEN <<>>
    ELSE IF ~SnapExists(rms[roomId]) THEN <<>>
    ELSE LET snap == getGameSnapshot(rms[roomId], t) IN
         IF snap.status # "active"
         THEN <<Emit("game:over", roomId, snap), Emit("game:state", roomId, snap)>>
         ELSE <<Emit("game:state", roomId, snap)>>

broadcastGameState(rms, roomId, t) ==
    IF roomId \notin DOMAIN rms THEN <<>>
    ELSE IF ~SnapExists(rms[roomId]) THEN <<>>
    ELSE LET snap == getGameSnapshot(rms[roomId], t) IN
         IF snap.status # "active"
         THEN <<Emit("game:state", roomId, snap), Emit("game:over", roomId, snap)>>
         ELSE <<Emit("game:state", roomId, snap)>>

SnapRooms(rms, roomId, t) ==
    IF roomId \in DOMAIN rms THEN [rms EXCEPT ![roomId] = SnapRoom(@, t)] ELSE rms

(***************************************************************************)
(* maybeStartGame                                                          *)
(***************************************************************************)
\* The guard of maybeStartGame: the room exists, has 2 players and no game.
StartsGame(rms, roomId) ==
    /\ roomId \in DOMAIN rms
    /\ Len(rms[roomId].players) = 2
    /\ ~HasGame(rms[roomId])

\* Faulty variant: the player who joined first is always white.
NewGameFirstIsWhite(room, whiteIndex, t) ==
    [chess |-> NewChess,
     whiteUserId |-> room.players[1],
     blackUserId |-> room.players[2],
     clockMs |-> [c \in Colors |-> INITIAL_CLOCK_MS],
     lastTickAt |-> t,
     agreedDraw |-> FALSE]

\* room.game = {...} with white = players[whiteIndex] (whiteIndex is 0 or 1)
NewGame(room, whiteIndex, t) ==
    [chess |-> NewChess,
     whiteUserId |-> room.players[whiteIndex + 1],
     blackUserId |-> room.players[IF whiteIndex = 0 THEN 2 ELSE 1],
     clockMs |-> [c \in Colors |-> INITIAL_CLOCK_MS],
     lastTickAt |-> t,
     agreedDraw |-> FALSE]

\* The rooms after maybeStartGame(io, roomId) with randomInt giving whiteIndex.
maybeStartGameRooms(rms, roomId, whiteIndex, t) ==
    IF StartsGame(rms, roomId)
    THEN SnapRooms([rms EXCEPT ![roomId].game = <<NewGame(rms[roomId], whiteIndex, t)>>], roomId, t)
    ELSE rms

\* What maybeStartGame(io, roomId) emits.
maybeStartGameOut(rms, sbu, roomId, whiteIndex, t) ==
    IF StartsGame(rms, roomId)
    THEN LET started == [rms EXCEPT ![roomId].game = <<NewGame(rms[roomId], whiteIndex, t)>>]
             snap == getGameSnapshot(started[roomId], t)
         IN <<Emit("game:start", roomId, snap), Emit("game:state", roomId, snap)>>
            \o broadcastRoomState(SnapRooms(started, roomId, t), sbu, roomId)
    ELSE <<>>

(***************************************************************************)
(* Initial state: the module-level maps are empty, no socket is open.      *)
(***************************************************************************)
Idle == Handled("init", "", NoData, <<>>, <<>>)

Init ==
    /\ now = StartNow
    /\ rooms = EmptyMap
    /\ roomByUserId = EmptyMap
    /\ socketsByUserId = EmptyMap
    /\ onlineUsers = {}
    /\ rematchAcceptedByRoomId = EmptyMap
    /\ connected = {}
    /\ joined = [s \in Sockets |-> {}]
    /\ inFlight = {}
    /\ last = Idle

(***************************************************************************)
(* The wall clock advances.                                                *)
(***************************************************************************)
Tick(maxTicks) ==
    /\ now < StartNow + maxTicks * TickMs
    /\ now' = now + TickMs
    /\ last' = Handled("tick", "", NoData, <<>>, <<>>)
    /\ UNCHANGED <<rooms, roomByUserId, socketsByUserId, onlineUsers,
                   rematchAcceptedByRoomId, connected, joined, inFlight>>

(***************************************************************************)
(* io.on("connection")                                                     *)
(***************************************************************************)
\* Faulty variant: the new connection is not subscribed to the user's room.
ConnectNoJoin(s) ==
    LET userId == SocketUser(s)
        sbu == MapSet(socketsByUserId, userId,
                      (IF userId \in DOMAIN socketsByUserId THEN socketsByUserId[userId] ELSE {}) \cup {s})
        inRoom == userId \in DOMAIN roomByUserId
        existingRoomId == roomByUserId[userId]
    IN
    /\ s \notin connected
    /\ connected' = connected \cup {s}
    /\ socketsByUserId' = sbu
    /\ onlineUsers' = onlineUsers \cup {userId}
    /\ joined' = joined
    /\ IF inRoom
       THEN /\ rooms' = SnapRooms(rooms, existingRoomId, now)
            /\ last' = Handled("connection", s, NoData, <<>>,
                          broadcastRoomState(rooms, sbu, existingRoomId)
                          \o broadcastGameState(rooms, existingRoomId, now)
                          \o <<Emit("presence:online", "*", NoData)>>)
       ELSE /\ UNCHANGED rooms
            /\ last' = Handled("connection", s, NoData, <<>>, <<Emit("presence:online", "*", NoData)>>)
    /\ UNCHANGED <<now, roomByUserId, rematchAcceptedByRoomId, inFlight>>

Connect(s) ==
    LET userId == SocketUser(s)
        sbu == MapSet(socketsByUserId, userId,
                      (IF userId \in DOMAIN socketsByUserId THEN socketsByUserId[userId] ELSE {}) \cup {s})
        inRoom == userId \in DOMAIN roomByUserId
        existingRoomId == roomByUserId[userId]
    IN
    /\ s \notin connected
    /\ connected' = connected \cup {s}
    /\ socketsByUserId' = sbu
    /\ onlineUsers' = onlineUsers \cup {userId}
    /\ IF inRoom
       THEN /\ joined' = [joined EXCEPT ![s] = @ \cup {existingRoomId}]
            /\ rooms' = SnapRooms(rooms, existingRoomId, now)
            /\ last' = Handled("connection", s, NoData, <<>>,
                          broadcastRoomState(rooms, sbu, existingRoomId)
                          \o broadcastGameState(rooms, existingRoomId, now)
                          \o <<Emit("presence:online", "*", NoData)>>)
       ELSE /\ UNCHANGED <<joined, rooms>>
            /\ last' = Handled("connection", s, NoData, <<>>, <<Emit("presence:online", "*", NoData)>>)
    /\ UNCHANGED <<now, roomByUserId, rematchAcceptedByRoomId, inFlight>>

(***************************************************************************)
(* socket.on("disconnect")                                                 *)
(***************************************************************************)
\* Faulty variant: closing any connection of a user takes the user offline.
DisconnectGoesOffline(s) ==
    LET userId == SocketUser(s)
        has == userId \in DOMAIN socketsByUserId
        left == socketsByUserId[userId] \ {s}
        sbu == IF ~has THEN socketsByUserId
               ELSE IF left = {} THEN MapDelete(socketsByUserId, userId)
               ELSE MapSet(socketsByUserId, userId, left)
    IN
    /\ s \in connected
    /\ connected' = connected \ {s}
    /\ joined' = [joined EXCEPT ![s] = {}]
    /\ socketsByUserId' = sbu
    /\ onlineUsers' = onlineUsers \ {userId}
    /\ last' = Handled("disconnect", s, NoData, <<>>, <<Emit("presence:online", "*", NoData)>>)
    /\ UNCHANGED <<now, rooms, roomByUserId, rematchAcceptedByRoomId, inFlight>>

\* Faulty variant: closing the last connection of a user evicts the user
\* from the room.
DisconnectEvicts(s) ==
    LET userId == SocketUser(s)
        has == userId \in DOMAIN socketsByUserId
        left == socketsByUserId[userId] \ {s}
        sbu == IF ~has THEN socketsByUserId
               ELSE IF left = {} THEN MapDelete(socketsByUserId, userId)
               ELSE MapSet(socketsByUserId, userId, left)
    IN
    /\ s \in connected
    /\ connected' = connected \ {s}
    /\ joined' = [joined EXCEPT ![s] = {}]
    /\ socketsByUserId' = sbu
    /\ onlineUsers' = IF has /\ left = {} THEN onlineUsers \ {userId} ELSE onlineUsers
    /\ rooms' = IF has /\ left = {} /\ userId \in DOMAIN roomByUserId
                THEN [rooms EXCEPT ![roomByUserId[userId]].players = SeqRemove(@, userId),
                                   ![roomByUserId[userId]].game = <<>>]
                ELSE rooms
    /\ roomByUserId' = IF has /\ left = {} THEN MapDelete(roomByUserId, userId) ELSE roomByUserId
    /\ last' = Handled("disconnect", s, NoData, <<>>, <<Emit("presence:online", "*", NoData)>>)
    /\ UNCHANGED <<now, rematchAcceptedByRoomId, inFlight>>

Disconnect(s) ==
    LET userId == SocketUser(s)
        has == userId \in DOMAIN socketsByUserId
        left == socketsByUserId[userId] \ {s}
        sbu == IF ~has THEN socketsByUserId
               ELSE IF left = {} THEN MapDelete(socketsByUserId, userId)
               ELSE MapSet(socketsByUserId, userId, left)
    IN
    /\ s \in connected
    /\ connected' = connected \ {s}
    \* socket.io drops a closed socket from every channel
    /\ joined' = [joined EXCEPT ![s] = {}]
    /\ socketsByUserId' = sbu
    /\ onlineUsers' = IF has /\ left = {} THEN onlineUsers \ {userId} ELSE onlineUsers
    /\ last' = Handled("disconnect", s, NoData, <<>>,
                  (IF has /\ left = {} /\ userId \in DOMAIN roomByUserId
                   THEN broadcastRoomState(rooms, sbu, roomByUserId[userId])
                   ELSE <<>>)
                  \o <<Emit("presence:online", "*", NoData)>>)
    /\ UNCHANGED <<now, rooms, roomByUserId, rematchAcceptedByRoomId, inFlight>>

(***************************************************************************)
(* socket.on("room:create")                                                *)
(***************************************************************************)
\* Faulty variant: a taken id is used as it is.
FreeRoomIdsKeepsSeed(rms, first) == {first}

\* while (rooms.has(roomId)) roomId = normalizeRoomId(): the ids the loop can
\* end on, starting from first.
FreeRoomIds(rms, first) == IF first \in DOMAIN rms THEN RoomIds \ DOMAIN rms ELSE {first}

RoomCreate(s, raw) ==
    LET userId == SocketUser(s) IN
    /\ s \in connected
    /\ IF userId \in DOMAIN roomByUserId
       THEN /\ last' = Handled("room:create", s, [roomId |-> raw], <<AckErr("You are already in a room")>>, <<>>)
            /\ UNCHANGED <<rooms, roomByUserId, joined>>
       ELSE \E first \in normalizeRoomId(raw) :
            \E roomId \in FreeRoomIds(rooms, first) :
            \E whiteIndex \in 0..1 :
               LET room == [id |-> roomId, players |-> <<userId>>, game |-> <<>>]
                   rms == MapSet(rooms, roomId, room)
                   state == getRoomState(room, socketsByUserId)
               IN
               /\ rooms' = maybeStartGameRooms(rms, roomId, whiteIndex, now)
               /\ roomByUserId' = MapSet(roomByUserId, userId, roomId)
               /\ joined' = [joined EXCEPT ![s] = @ \cup {roomId}]
               /\ last' = Handled("room:create", s, [roomId |-> raw], <<AckOk(state)>>,
                             <<Emit("room:state", roomId, state)>>
                             \o maybeStartGameOut(rms, socketsByUserId, roomId, whiteIndex, now))
    /\ UNCHANGED <<now, socketsByUserId, onlineUsers, rematchAcceptedByRoomId, connected, inFlight>>

(***************************************************************************)
(* socket.on("room:join")                                                  *)
(***************************************************************************)
\* Faulty variant: the room's size is not looked at.
JoinErrorNoFull(rms, rbu, userId, normalizedRoomId) ==
    IF normalizedRoomId \notin DOMAIN rms THEN "Room not found"
    ELSE IF userId \in DOMAIN rbu /\ rbu[userId] # normalizedRoomId THEN "Leave your current room first"
    ELSE ""

\* The refusal of room:join, "" if the user is let in.
JoinError(rms, rbu, userId, normalizedRoomId) ==
    IF normalizedRoomId \notin DOMAIN rms THEN "Room not found"
    ELSE IF userId \in DOMAIN rbu /\ rbu[userId] # normalizedRoomId THEN "Leave your current room first"
    ELSE IF userId \notin SeqRange(rms[normalizedRoomId].players)
            /\ Len(rms[normalizedRoomId].players) >= 2
         THEN "Room is full"
    ELSE ""

RoomJoin(s, raw) ==
    LET userId == SocketUser(s) IN
    /\ s \in connected
    /\ \E normalizedRoomId \in normalizeRoomId(raw) :
       IF JoinError(rooms, roomByUserId, userId, normalizedRoomId) # ""
       THEN /\ last' = Handled("room:join", s, [roomId |-> raw],
                          <<AckErr(JoinError(rooms, roomByUserId, userId, normalizedRoomId))>>, <<>>)
            /\ UNCHANGED <<rooms, roomByUserId, joined>>
       ELSE \E whiteIndex \in 0..1 :
            LET rms == [rooms EXCEPT ![normalizedRoomId].players = PlayersSet(@, userId)]
                state == getRoomState(rms[normalizedRoomId], socketsByUserId)
            IN
            /\ rooms' = maybeStartGameRooms(rms, normalizedRoomId, whiteIndex, now)
            /\ roomByUserId' = MapSet(roomByUserId, userId, normalizedRoomId)
            /\ joined' = [joined EXCEPT ![s] = @ \cup {normalizedRoomId}]
            /\ last' = Handled("room:join", s, [roomId |-> raw], <<AckOk(state)>>,
                          <<Emit("room:state", normalizedRoomId, state)>>
                          \o maybeStartGameOut(rms, socketsByUserId, normalizedRoomId, whiteIndex, now))
    /\ UNCHANGED <<now, socketsByUserId, onlineUsers, rematchAcceptedByRoomId, connected, inFlight>>

(***************************************************************************)
(* socket.on("room:state")                                                 *)
(***************************************************************************)
RoomState(s) ==
    LET userId == SocketUser(s) IN
    /\ s \in connected
    /\ IF userId \notin DOMAIN roomByUserId
       THEN /\ last' = Handled("room:state", s, NoData, <<AckErr("You are not in a room")>>, <<>>)
            /\ UNCHANGED roomByUserId
       ELSE IF roomByUserId[userId] \notin DOMAIN rooms
       THEN /\ roomByUserId' = MapDelete(roomByUserId, userId)
            /\ last' = Handled("room:state", s, NoData, <<AckErr("Room no longer exists")>>, <<>>)
       ELSE /\ last' = Handled("room:state", s, NoData,
                          <<AckOk(getRoomState(rooms[roomByUserId[userId]], socketsByUserId))>>, <<>>)
            /\ UNCHANGED roomByUserId
    /\ UNCHANGED <<now, rooms, socketsByUserId, onlineUsers, rematchAcceptedByRoomId,
                   connected, joined, inFlight>>

(***************************************************************************)
(* socket.on("game:state")                                                 *)
(***************************************************************************)
GameState(s) ==
    LET userId == SocketUser(s) IN
    /\ s \in connected
    /\ IF userId \notin DOMAIN roomByUserId
       THEN /\ last' = Handled("game:state", s, NoData, <<AckErr("You are not in a room")>>, <<>>)
            /\ UNCHANGED <<roomByUserId, rooms>>
       ELSE IF roomByUserId[userId] \notin DOMAIN rooms
       THEN /\ roomByUserId' = MapDelete(roomByUserId, userId)
            /\ last' = Handled("game:state", s, NoData, <<AckErr("Room no longer exists")>>, <<>>)
            /\ UNCHANGED rooms
       ELSE LET roomId == roomByUserId[userId] IN
            /\ rooms' = SnapRooms(rooms, roomId, now)
            /\ last' = IF SnapExists(rooms[roomId])
                       THEN Handled("game:state", s, NoData, <<AckOk(getGameSnapshot(rooms[roomId], now))>>, <<>>)
                       ELSE Handled("game:state", s, NoData, <<AckErr("Game not started")>>, <<>>)
            /\ UNCHANGED roomByUserId
    /\ UNCHANGED <<now, socketsByUserId, onlineUsers, rematchAcceptedByRoomId,
                   connected, joined, inFlight>>

(***************************************************************************)
(* leaveRoom and socket.on("room:leave")                                   *)
(***************************************************************************)
\* Faulty variant: the leaver is not removed from room.players.
LeftRoomKeepsPlayer(room, userId) ==
    [room EXCEPT !.game = IF HasGame(room) /\ (GameOf(room).whiteUserId = userId
                                               \/ GameOf(room).blackUserId = userId)
                          THEN <<>> ELSE @]

\* Faulty variant: the game is kept when one of its players leaves.
LeftRoomKeepsGame(room, userId) == [room EXCEPT !.players = SeqRemove(@, userId)]

\* The room after leaveRoom removed userId from it (the room still in the map).
LeftRoom(room, userId) ==
    [room EXCEPT !.players = SeqRemove(@, userId),
                 !.game = IF HasGame(room) /\ (GameOf(room).whiteUserId = userId
                                               \/ GameOf(room).blackUserId = userId)
                          THEN <<>> ELSE @]

\* Faulty variant: a room left by its last player stays in the registry.
leaveRoomRoomsKeepsEmpty(rms, rbu, userId) ==
    IF userId \notin DOMAIN rbu THEN rms
    ELSE IF rbu[userId] \notin DOMAIN rms THEN rms
    ELSE [rms EXCEPT ![rbu[userId]] = LeftRoom(rms[rbu[userId]], userId)]

\* rooms after leaveRoom(io, socket, userId)
leaveRoomRooms(rms, rbu, userId) ==
    IF userId \notin DOMAIN rbu THEN rms
    ELSE IF rbu[userId] \notin DOMAIN rms THEN rms
    ELSE LET roomId == rbu[userId]
             room == LeftRoom(rms[roomId], userId)
         IN IF Len(room.players) = 0 THEN MapDelete(rms, roomId)
            ELSE [rms EXCEPT ![roomId] = room]

\* what leaveRoom(io, socket, userId, reason) emits
leaveRoomOut(rms, rbu, sbu, userId) ==
    IF userId \notin DOMAIN rbu THEN <<>>
    ELSE IF rbu[userId] \notin DOMAIN rms THEN <<>>
    ELSE LET roomId == rbu[userId]
             after == leaveRoomRooms(rms, rbu, userId)
         IN IF roomId \notin DOMAIN after THEN <<>>
            ELSE <<Emit("room:error", roomId, NoData)>> \o broadcastRoomState(after, sbu, roomId)

\* Faulty variant: the pending rematch set of the room is kept.
RoomLeaveKeepsRematch(s) ==
    LET userId == SocketUser(s) IN
    /\ s \in connected
    /\ IF userId \notin DOMAIN roomByUserId
       THEN /\ last' = Handled("room:leave", s, NoData, <<AckErr("You are not in a room")>>, <<>>)
            /\ UNCHANGED <<rooms, roomByUserId, rematchAcceptedByRoomId, joined>>
       ELSE LET roomId == roomByUserId[userId] IN
            /\ UNCHANGED rematchAcceptedByRoomId
            /\ rooms' = leaveRoomRooms(rooms, roomByUserId, userId)
            /\ roomByUserId' = MapDelete(roomByUserId, userId)
            /\ joined' = IF roomId \in DOMAIN rooms
                         THEN [joined EXCEPT ![s] = @ \ {roomId}] ELSE joined
            /\ last' = Handled("room:leave", s, NoData, <<AckOk(NoData)>>,
                          leaveRoomOut(rooms, roomByUserId, socketsByUserId, userId))
    /\ UNCHANGED <<now, socketsByUserId, onlineUsers, connected, inFlight>>

RoomLeave(s) ==
    LET userId == SocketUser(s) IN
    /\ s \in connected
    /\ IF userId \notin DOMAIN roomByUserId
       THEN /\ last' = Handled("room:leave", s, NoData, <<AckErr("You are not in a room")>>, <<>>)
            /\ UNCHANGED <<rooms, roomByUserId, rematchAcceptedByRoomId, joined>>
       ELSE LET roomId == roomByUserId[userId] IN
            /\ rematchAcceptedByRoomId' = MapDelete(rematchAcceptedByRoomId, roomId)
            /\ rooms' = leaveRoomRooms(rooms, roomByUserId, userId)
            /\ roomByUserId' = MapDelete(roomByUserId, userId)
            \* socket.leave(roomId): only the socket that sent the event
            /\ joined' = IF roomId \in DOMAIN rooms
                         THEN [joined EXCEPT ![s] = @ \ {roomId}] ELSE joined
            /\ last' = Handled("room:leave", s, NoData, <<AckOk(NoData)>>,
                          leaveRoomOut(rooms, roomByUserId, socketsByUserId, userId))
    /\ UNCHANGED <<now, socketsByUserId, onlineUsers, connected, inFlight>>

(***************************************************************************)
(* socket.on("chess:move")                                                 *)
(***************************************************************************)
\* room ids as a chess:move payload names them (compared with !==, not normalised)
MoveRoomIds == RoomIds \cup {"a"}

\* Faulty variant: the turn is checked before the status of the game.
MoveErrorTurnFirst(rms, rbu, userId, payload, t) ==
    IF userId \notin DOMAIN rbu THEN "You are not in a room"
    ELSE IF payload.roomId # rbu[userId] THEN "Invalid room"
    ELSE IF rbu[userId] \notin DOMAIN rms \/ userId \notin SeqRange(rms[rbu[userId]].players)
         THEN "Room not found"
    ELSE LET room == rms[rbu[userId]] IN
         IF ~HasGame(room) THEN "Game not started"
         ELSE IF SnapExists(room) /\ GameOf(room).chess.turn = "w" /\ GameOf(room).blackUserId = userId
              THEN "Not your turn"
         ELSE IF SnapExists(room) /\ GameOf(room).chess.turn = "b" /\ GameOf(room).whiteUserId = userId
              THEN "Not your turn"
         ELSE IF ~SnapExists(room) \/ getGameSnapshot(room, t).status # "active"
              THEN "Game is already over"
         ELSE LET game == GameOf(room)
                  playerColor == IF game.whiteUserId = userId THEN "w"
                                 ELSE IF game.blackUserId = userId THEN "b" ELSE "none"
              IN IF playerColor = "none" THEN "You are not a player in this game"
                 ELSE IF game.chess.turn # playerColor THEN "Not your turn"
                 ELSE IF TrimLower(payload.from) = "" \/ TrimLower(payload.to) = ""
                      THEN "Move must include from and to squares"
                 ELSE IF ChessMove(game.chess, TrimLower(payload.from), TrimLower(payload.to)) = {}
                      THEN "Illegal move"
                 ELSE ""

\* Faulty variant: the status is taken from the stored clocks, without folding the
\* time that elapsed up to the receipt of the move.
MoveErrorStaleClock(rms, rbu, userId, payload, t) ==
    IF userId \notin DOMAIN rbu THEN "You are not in a room"
    ELSE IF payload.roomId # rbu[userId] THEN "Invalid room"
    ELSE IF rbu[userId] \notin DOMAIN rms \/ userId \notin SeqRange(rms[rbu[userId]].players)
         THEN "Room not found"
    ELSE LET room == rms[rbu[userId]] IN
         IF ~HasGame(room) THEN "Game not started"
         ELSE IF ~SnapExists(room) \/ SnapStatus(GameOf(room)) # "active"
              THEN "Game is already over"
         ELSE LET game == GameOf(room)
                  playerColor == IF game.whiteUserId = userId THEN "w"
                                 ELSE IF game.blackUserId = userId THEN "b" ELSE "none"
              IN IF playerColor = "none" THEN "You are not a player in this game"
                 ELSE IF game.chess.turn # playerColor THEN "Not your turn"
                 ELSE IF TrimLower(payload.from) = "" \/ TrimLower(payload.to) = ""
                      THEN "Move must include from and to squares"
                 ELSE IF ChessMove(game.chess, TrimLower(payload.from), TrimLower(payload.to)) = {}
                      THEN "Illegal move"
                 ELSE ""

\* The error of the first failing pre-check of the handler, "" if none fails
\* before the rules engine is asked.
MoveError(rms, rbu, userId, payload, t) ==
    IF userId \notin DOMAIN rbu THEN "You are not in a room"
    ELSE IF payload.roomId # rbu[userId] THEN "Invalid room"
    ELSE IF rbu[userId] \notin DOMAIN rms \/ userId \notin SeqRange(rms[rbu[userId]].players)
         THEN "Room not found"
    ELSE LET room == rms[rbu[userId]] IN
         IF ~HasGame(room) THEN "Game not started"
         ELSE IF ~SnapExists(room) \/ getGameSnapshot(room, t).status # "active"
              THEN "Game is already over"
         ELSE LET game == GameOf(room)
                  playerColor == IF game.whiteUserId = userId THEN "w"
                                 ELSE IF game.blackUserId = userId THEN "b" ELSE "none"
              IN IF playerColor = "none" THEN "You are not a player in this game"
                 ELSE IF game.chess.turn # playerColor THEN "Not your turn"
                 ELSE IF TrimLower(payload.from) = "" \/ TrimLower(payload.to) = ""
                      THEN "Move must include from and to squares"
                 ELSE IF ChessMove(game.chess, TrimLower(payload.from), TrimLower(payload.to)) = {}
                      THEN "Illegal move"
                 ELSE ""

\* Whether the handler got as far as taking snapshotBeforeMove.
MoveSnapshots(err) ==
    err \notin {"You are not in a room", "Invalid room", "Room not found", "Game not started"}

\* Faulty variant: the move is played on the board before it is validated.
RejectedMoveRoomsMoved(rms, roomId, t) ==
    [SnapRooms(rms, roomId, t) EXCEPT ![roomId].game =
        IF @ = <<>> THEN @ ELSE <<[@[1] EXCEPT !.chess.turn = Opposite(@)]>>]

\* The rooms after a chess:move that is rejected after snapshotBeforeMove was
\* taken: getGameSnapshot (and, for a finished game, broadcastGameState) ran.
RejectedMoveRooms(rms, roomId, t) == SnapRooms(rms, roomId, t)

\* Faulty variant: the board is not updated by an accepted move.
AppliedMoveKeepsBoard(game, moved, t) == [game EXCEPT !.lastTickAt = t]

\* The game after room.game.chess.move(...) succeeded and lastTickAt was reset.
AppliedMove(game, moved, t) == [game EXCEPT !.chess = moved, !.lastTickAt = t]

ChessMoveEvent(s, payload) ==
    LET userId == SocketUser(s)
        err == MoveError(rooms, roomByUserId, userId, payload, now)
    IN
    /\ s \in connected
    /\ IF err # ""
       THEN IF ~MoveSnapshots(err)
            THEN /\ last' = Handled("chess:move", s, payload, <<AckErr(err)>>, <<>>)
                 /\ UNCHANGED rooms
            ELSE LET roomId == roomByUserId[userId] IN
                 /\ rooms' = RejectedMoveRooms(rooms, roomId, now)
                 /\ last' = Handled("chess:move", s, payload, <<AckErr(err)>>,
                               IF err = "Game is already over"
                               THEN broadcastGameState(rooms, roomId, now) ELSE <<>>)
       ELSE LET roomId == roomByUserId[userId]
                from == TrimLower(payload.from)
                to == TrimLower(payload.to)
                sampled == SnapRoom(rooms[roomId], now)
            IN \E moved \in ChessMove(GameOf(sampled).chess, from, to) :
               LET rms == [rooms EXCEPT ![roomId] =
                             [sampled EXCEPT !.game = <<AppliedMove(GameOf(sampled), moved, now)>>]]
                   eventPayload == [kind |-> "move", roomId |-> roomId, from |-> from, to |-> to,
                                    fen |-> moved, turn |-> moved.turn, by |-> userId]
               IN
               /\ rooms' = SnapRooms(rms, roomId, now)
               /\ last' = Handled("chess:move", s, payload, <<AckOk(eventPayload)>>,
                             <<Emit("chess:move", roomId, eventPayload)>>
                             \o broadcastGameState(rms, roomId, now))
    /\ UNCHANGED <<now, roomByUserId, socketsByUserId, onlineUsers, rematchAcceptedByRoomId,
                   connected, joined, inFlight>>

(***************************************************************************)
(* Rematch: getEndedGameRoom, startRematch and the two handlers.           *)
(***************************************************************************)
\* Faulty variant: any room with a game counts as ended.
getEndedGameRoomAnyGame(rms, roomId, t) ==
    roomId \in DOMAIN rms /\ HasGame(rms[roomId])

\* Whether getEndedGameRoom(roomId) returns the room (not null) at time t.
getEndedGameRoom(rms, roomId, t) ==
    /\ roomId \in DOMAIN rms
    /\ HasGame(rms[roomId])
    /\ SnapExists(rms[roomId])
    /\ getGameSnapshot(rms[roomId], t).status # "active"

MapGet(m, k) == IF k \in DOMAIN m THEN m[k] ELSE {}

\* Faulty variant: the ended game is cleared and no new one is started.
startRematchRoomsNoRestart(rms, roomId, whiteIndex, t) ==
    IF roomId \in DOMAIN rms /\ HasGame(rms[roomId])
    THEN [rms EXCEPT ![roomId].game = <<>>]
    ELSE rms

\* Faulty variant: the clocks of the ended game are carried into the new one.
startRematchRoomsCarryClocks(rms, roomId, whiteIndex, t) ==
    IF roomId \in DOMAIN rms /\ HasGame(rms[roomId])
    THEN [maybeStartGameRooms([rms EXCEPT ![roomId].game = <<>>], roomId, whiteIndex, t)
            EXCEPT ![roomId].game = <<[@[1] EXCEPT !.clockMs = GameOf(rms[roomId]).clockMs]>>]
    ELSE rms

\* rooms after startRematch(io, roomId), called on rooms rms
startRematchRooms(rms, roomId, whiteIndex, t) ==
    IF roomId \in DOMAIN rms /\ HasGame(rms[roomId])
    THEN maybeStartGameRooms([rms EXCEPT ![roomId].game = <<>>], roomId, whiteIndex, t)
    ELSE rms

\* Faulty variant: game:start and the snapshot are sent before the status.
startRematchOutStatusLast(rms, sbu, roomId, whiteIndex, t) ==
    IF roomId \in DOMAIN rms /\ HasGame(rms[roomId])
    THEN maybeStartGameOut([rms EXCEPT ![roomId].game = <<>>], sbu, roomId, whiteIndex, t)
         \o <<Emit("game:rematch:status", roomId, [kind |-> "status", status |-> "started"])>>
    ELSE <<>>

\* what startRematch(io, roomId) emits
startRematchOut(rms, sbu, roomId, whiteIndex, t) ==
    IF roomId \in DOMAIN rms /\ HasGame(rms[roomId])
    THEN <<Emit("game:rematch:status", roomId, [kind |-> "status", status |-> "started"])>>
         \o maybeStartGameOut([rms EXCEPT ![roomId].game = <<>>], sbu, roomId, whiteIndex, t)
    ELSE <<>>

\* the value startRematch returns
startRematchReturns(rms, roomId) == roomId \in DOMAIN rms /\ HasGame(rms[roomId])

\* Faulty variant: the rematch starts on the first request or accept.
OpponentAcceptedAlways(accepted, opponentUserId) == accepted # {}

\* Whether the pending set makes a request/accept by userId start the rematch.
OpponentAccepted(accepted, opponentUserId) == opponentUserId \in accepted

RematchRequest(s) ==
    LET userId == SocketUser(s) IN
    /\ s \in connected
    /\ IF userId \notin DOMAIN roomByUserId
       THEN /\ last' = Handled("game:rematch:request", s, NoData, <<AckErr("You are not in a room")>>, <<>>)
            /\ UNCHANGED <<rooms, rematchAcceptedByRoomId>>
       ELSE LET roomId == roomByUserId[userId]
                rms == SnapRooms(rooms, roomId, now)
            IN
            IF ~getEndedGameRoom(rooms, roomId, now)
            THEN /\ rooms' = rms
                 /\ last' = Handled("game:rematch:request", s, NoData,
                               <<AckErr("Rematch is only available after game over")>>, <<>>)
                 /\ UNCHANGED rematchAcceptedByRoomId
            ELSE LET game == GameOf(rms[roomId])
                     isWhite == game.whiteUserId = userId
                     isBlack == game.blackUserId = userId
                     opponentUserId == IF isWhite THEN game.blackUserId ELSE game.whiteUserId
                     accepted == MapGet(rematchAcceptedByRoomId, roomId) \cup {userId}
                     requested == Emit("game:rematch:status", roomId,
                                       [kind |-> "status", status |-> "requested", by |-> userId])
                 IN
                 IF ~isWhite /\ ~isBlack
                 THEN /\ rooms' = rms
                      /\ last' = Handled("game:rematch:request", s, NoData,
                                    <<AckErr("Only players can request rematch")>>, <<>>)
                      /\ UNCHANGED rematchAcceptedByRoomId
                 ELSE IF opponentUserId \notin SeqRange(rms[roomId].players)
                 THEN /\ rooms' = rms
                      /\ last' = Handled("game:rematch:request", s, NoData,
                                    <<AckErr("Opponent is no longer in the room")>>, <<>>)
                      /\ UNCHANGED rematchAcceptedByRoomId
                 ELSE IF ~OpponentAccepted(accepted, opponentUserId)
                 THEN /\ rooms' = rms
                      /\ rematchAcceptedByRoomId' = MapSet(rematchAcceptedByRoomId, roomId, accepted)
                      /\ last' = Handled("game:rematch:request", s, NoData,
                                    <<AckOk([kind |-> "rematch", waitingFor |-> opponentUserId])>>,
                                    <<requested, Emit("game:rematch:requested",
                                                      MapGet(socketsByUserId, opponentUserId),
                                                      [kind |-> "from", from |-> userId])>>)
                 ELSE \E whiteIndex \in 0..1 :
                      /\ rooms' = startRematchRooms(rms, roomId, whiteIndex, now)
                      /\ rematchAcceptedByRoomId' = MapDelete(rematchAcceptedByRoomId, roomId)
                      /\ last' = Handled("game:rematch:request", s, NoData,
                                    <<AckOk([kind |-> "rematch", started |-> startRematchReturns(rms, roomId)])>>,
                                    <<requested>> \o startRematchOut(rms, socketsByUserId, roomId, whiteIndex, now))
    /\ UNCHANGED <<now, roomByUserId, socketsByUserId, onlineUsers, connected, joined, inFlight>>

\* Faulty variant: a decline keeps the pending set.
DeclinedRematchKept(accepted, roomId) == accepted

\* The pending sets after a decline: rematchAcceptedByRoomId.delete(roomId)
DeclinedRematch(accepted, roomId) == MapDelete(accepted, roomId)

RematchRespond(s, accept) ==
    LET userId == SocketUser(s) IN
    /\ s \in connected
    /\ IF userId \notin DOMAIN roomByUserId
       THEN /\ last' = Handled("game:rematch:respond", s, [accept |-> accept], <<AckErr("You are not in a room")>>, <<>>)
            /\ UNCHANGED <<rooms, rematchAcceptedByRoomId>>
       ELSE LET roomId == roomByUserId[userId]
                rms == SnapRooms(rooms, roomId, now)
            IN
            IF ~getEndedGameRoom(rooms, roomId, now)
            THEN /\ rooms' = rms
                 /\ last' = Handled("game:rematch:respond", s, [accept |-> accept],
                               <<AckErr("No rematch request to respond to")>>, <<>>)
                 /\ UNCHANGED rematchAcceptedByRoomId
            ELSE LET game == GameOf(rms[roomId])
                     isWhite == game.whiteUserId = userId
                     isBlack == game.blackUserId = userId
                     opponentUserId == IF isWhite THEN game.blackUserId ELSE game.whiteUserId
                     accepted == MapGet(rematchAcceptedByRoomId, roomId) \cup {userId}
                 IN
                 IF ~isWhite /\ ~isBlack
                 THEN /\ rooms' = rms
                      /\ last' = Handled("game:rematch:respond", s, [accept |-> accept],
                                    <<AckErr("Only players can respond to rematch")>>, <<>>)
                      /\ UNCHANGED rematchAcceptedByRoomId
                 ELSE IF ~accept
                 THEN /\ rooms' = rms
                      /\ rematchAcceptedByRoomId' = DeclinedRematch(rematchAcceptedByRoomId, roomId)
                      /\ last' = Handled("game:rematch:respond", s, [accept |-> accept],
                                    <<AckOk([kind |-> "rematch", started |-> FALSE])>>,
                                    <<Emit("game:rematch:status", roomId,
                                           [kind |-> "status", status |-> "declined", by |-> userId])>>)
                 ELSE IF ~OpponentAccepted(accepted, opponentUserId)
                 THEN /\ rooms' = rms
                      /\ rematchAcceptedByRoomId' = MapSet(rematchAcceptedByRoomId, roomId, accepted)
                      /\ last' = Handled("game:rematch:respond", s, [accept |-> accept],
                                    <<AckOk([kind |-> "rematch", started |-> FALSE])>>, <<>>)
                 ELSE \E whiteIndex \in 0..1 :
                      /\ rooms' = startRematchRooms(rms, roomId, whiteIndex, now)
                      /\ rematchAcceptedByRoomId' = MapDelete(rematchAcceptedByRoomId, roomId)
                      /\ last' = Handled("game:rematch:respond", s, [accept |-> accept],
                                    <<AckOk([kind |-> "rematch", started |-> startRematchReturns(rms, roomId)])>>,
                                    startRematchOut(rms, socketsByUserId, roomId, whiteIndex, now))
    /\ UNCHANGED <<now, roomByUserId, socketsByUserId, onlineUsers, connected, joined, inFlight>>

(***************************************************************************)
(* socket.on("invite:send"): an async handler.  InviteSend runs it up to   *)
(* the await of areFriends; InviteResume runs the rest once the lookup     *)
(* settled (resolved true or false, or rejected).                          *)
(***************************************************************************)
\* Target user ids as a client sends them; payload.toUserId?.trim()
RawUserIds == {"", " u1", "u2", "u3 "}
TrimUser(raw) == CASE raw = " u1" -> "u1" [] raw = "u3 " -> "u3" [] OTHER -> raw

\* The error of the first gate that fails before the friendship lookup, "" if none.
InviteEarlyError(rms, rbu, userId, toUserId, roomId) ==
    IF toUserId = "" THEN "Missing target user"
    ELSE IF toUserId = userId THEN "You cannot invite yourself"
    ELSE IF roomId = "" THEN "Create or join a room first"
    ELSE IF roomId \notin DOMAIN rms \/ userId \notin SeqRange(rms[roomId].players)
         THEN "You are not in that room"
    ELSE ""

\* The outcomes of await areFriends(userId, toUserId)
Lookups == {"friends", "strangers", "rejected"}

InviteSend(s, payload) ==
    LET userId == SocketUser(s)
        toUserId == TrimUser(payload.toUserId)
    IN
    /\ s \in connected
    /\ \E roomId \in (IF payload.roomId # "" THEN normalizeRoomId(payload.roomId)
                      ELSE IF userId \in DOMAIN roomByUserId THEN {roomByUserId[userId]}
                      ELSE {""}) :
       LET err == InviteEarlyError(rooms, roomByUserId, userId, toUserId, roomId) IN
       IF err # ""
       THEN /\ last' = Handled("invite:send", s, payload, <<AckErr(err)>>, <<>>)
            /\ UNCHANGED inFlight
       ELSE /\ Cardinality(inFlight) < MaxInFlight
            /\ \A h \in inFlight : h.sock # s
            /\ inFlight' = inFlight \cup {[sock |-> s, userId |-> userId, payload |-> payload,
                                            toUserId |-> toUserId, roomId |-> roomId]}
            /\ last' = [ev |-> "invite:send", sock |-> s, arg |-> payload, done |-> FALSE,
                        acks |-> <<>>, out |-> <<>>]
    /\ UNCHANGED <<now, rooms, roomByUserId, socketsByUserId, onlineUsers,
                   rematchAcceptedByRoomId, connected, joined>>

\* Faulty variant: the target's presence is checked before the friendship.
InviteAcksPresenceFirst(sbu, h, lookup) ==
    IF lookup = "rejected" THEN <<>>
    ELSE IF ~isUserOnline(sbu, h.toUserId) THEN <<AckErr("Friend is offline")>>
    ELSE IF lookup = "strangers"
         THEN <<AckErr("You can only invite users from your friend list")>>
    ELSE <<AckOk([kind |-> "invite", roomId |-> h.roomId])>>

\* The acks of the rest of the handler, given the outcome of the lookup.
InviteAcks(sbu, h, lookup) ==
    IF lookup = "rejected" THEN <<>>
    ELSE IF lookup = "strangers"
         THEN <<AckErr("You can only invite users from your friend list")>>
    ELSE IF ~isUserOnline(sbu, h.toUserId) THEN <<AckErr("Friend is offline")>>
    ELSE <<AckOk([kind |-> "invite", roomId |-> h.roomId])>>

InviteResume(h, lookup) ==
    /\ h \in inFlight
    /\ inFlight' = inFlight \ {h}
    /\ last' = Handled("invite:send", h.sock,
                  [toUserId |-> h.payload.toUserId, roomId |-> h.payload.roomId, lookup |-> lookup],
                  InviteAcks(socketsByUserId, h, lookup),
                  IF lookup = "friends" /\ isUserOnline(socketsByUserId, h.toUserId)
                  THEN <<Emit("invite:received", MapGet(socketsByUserId, h.toUserId),
                              [kind |-> "invite", from |-> h.userId, roomId |-> h.roomId])>>
                  ELSE <<>>)
    /\ UNCHANGED <<now, rooms, roomByUserId, socketsByUserId, onlineUsers,
                   rematchAcceptedByRoomId, connected, joined>>

(***************************************************************************)
(* The gateway: any open socket may send any event with any payload.       *)
(***************************************************************************)
Move(roomId, from, to) == [roomId |-> roomId, from |-> from, to |-> to]
Invite(toUserId, roomId) == [toUserId |-> toUserId, roomId |-> roomId]

(***************************************************************************)
(* Spec: rooms, presence, games and rematches from process start, one      *)
(* connection per user, a few moves (a quiet one, a mating one, malformed  *)
(* ones).  The wall clock stands still; invites are in SpecInvite.         *)
(***************************************************************************)
OneEach == {"s1", "s3", "s4"}
SomeMoves ==
    {Move("A", "e2", "a1"), Move("A", " E2 ", "a3"), Move("a", "e2", "a1"), Move("A", "e2", ""),
     Move("A", "zz", "a1")}

Next ==
    \/ \E s \in OneEach : Connect(s)
    \/ \E s \in OneEach : Disconnect(s)
    \/ \E s \in OneEach, raw \in {"", "a", "B"} : RoomCreate(s, raw)
    \/ \E s \in OneEach, raw \in {" A ", "b ", "c"} : RoomJoin(s, raw)
    \/ \E s \in OneEach : RoomState(s)
    \/ \E s \in OneEach : GameState(s)
    \/ \E s \in OneEach : RoomLeave(s)
    \/ \E s \in OneEach, payload \in SomeMoves : ChessMoveEvent(s, payload)
    \/ \E s \in OneEach : RematchRequest(s)
    \/ \E s \in OneEach, accept \in BOOLEAN : RematchRespond(s, accept)

Spec == Init /\ [][Next]_vars

(***************************************************************************)
(* SpecGame: two connected players seated in room A whose game has just    *)
(* started (either may be white), every kind of move, and enough time for  *)
(* either clock to run out.                                                *)
(***************************************************************************)
GameSockets == {"s1", "s3"}
GameMoves ==
    {Move("A", "e2", to) : to \in {"a1", "a2", "a3", "a4", "a5", "a6", "a7", "a8", "b1", " B2 "}}
    \cup {Move("A", "e2", ""), Move("A", "  ", "a1"), Move("A", "zz", "a1"), Move("A", "e2", "zz"),
          Move("a", "e2", "a1"), Move("B", "e2", "a1")}

InitGame ==
    /\ now = StartNow
    /\ \E whiteIndex \in 0..1 :
         rooms = [r \in {"A"} |->
                    [id |-> "A", players |-> <<"u1", "u2">>,
                     game |-> <<NewGame([players |-> <<"u1", "u2">>], whiteIndex, StartNow)>>]]
    /\ roomByUserId = [u \in {"u1", "u2"} |-> "A"]
    /\ socketsByUserId = [u \in {"u1", "u2"} |-> IF u = "u1" THEN {"s1"} ELSE {"s3"}]
    /\ onlineUsers = {"u1", "u2"}
    /\ rematchAcceptedByRoomId = EmptyMap
    /\ connected = GameSockets
    /\ joined = [s \in Sockets |-> IF s \in GameSockets THEN {"A"} ELSE {}]
    /\ inFlight = {}
    /\ last = Idle

NextGame ==
    \/ Tick(MaxTicks)
    \/ \E s \in GameSockets : RoomState(s)
    \/ \E s \in GameSockets : GameState(s)
    \/ \E s \in GameSockets, payload \in GameMoves : ChessMoveEvent(s, payload)
    \/ \E s \in GameSockets : RematchRequest(s)
    \/ \E s \in GameSockets, accept \in BOOLEAN : RematchRespond(s, accept)

SpecGame == InitGame /\ [][NextGame]_vars

(***************************************************************************)
(* SpecInvite: invite:send and its asynchronous friendship lookup,         *)
(* interleaved with connects, disconnects and room changes.                *)
(***************************************************************************)
InviteSockets == {"s1", "s4"}
SomeInvites == {Invite("u3 ", ""), Invite("u3 ", "a"), Invite(" u1", ""), Invite("", ""), Invite("u2", "B")}

NextInvite ==
    \/ \E s \in InviteSockets : Connect(s)
    \/ \E s \in InviteSockets : Disconnect(s)
    \/ \E s \in InviteSockets, raw \in {"a", "B"} : RoomCreate(s, raw)
    \/ \E s \in InviteSockets, raw \in {" A "} : RoomJoin(s, raw)
    \/ \E s \in InviteSockets : RoomLeave(s)
    \/ \E s \in InviteSockets, payload \in SomeInvites : InviteSend(s, payload)
    \/ \E h \in inFlight, lookup \in Lookups : InviteResume(h, lookup)

SpecInvite == Init /\ [][NextInvite]_vars

(***************************************************************************)
(* SpecSnapshot: getGameSnapshot as a function of the game it is given.    *)
(* The game's fields are drawn from bounded sets; game:state applies it.   *)
(***************************************************************************)
SomeClocks == {0, TickMs \div 2, INITIAL_CLOCK_MS}

InitSnapshot ==
    /\ now = StartNow + TickMs
    /\ \E chess \in [turn : Colors, kind : Kinds], whiteIndex \in 0..1,
          w \in SomeClocks, b \in SomeClocks, agreedDraw \in BOOLEAN,
          lastTickAt \in {NoTick, StartNow, StartNow + TickMs} :
         rooms = [r \in {"A"} |->
                    [id |-> "A", players |-> <<"u1", "u2">>,
                     game |-> <<[NewGame([players |-> <<"u1", "u2">>], whiteIndex, lastTickAt)
                                   EXCEPT !.chess = chess,
                                          !.clockMs = [c \in Colors |-> IF c = "w" THEN w ELSE b],
                                          !.agreedDraw = agreedDraw]>>]]
    /\ roomByUserId = [u \in {"u1", "u2"} |-> "A"]
    /\ socketsByUserId = [u \in {"u1", "u2"} |-> IF u = "u1" THEN {"s1"} ELSE {"s3"}]
    /\ onlineUsers = {"u1", "u2"}
    /\ rematchAcceptedByRoomId = EmptyMap
    /\ connected = GameSockets
    /\ joined = [s \in Sockets |-> IF s \in GameSockets THEN {"A"} ELSE {}]
    /\ inFlight = {}
    /\ last = Idle

NextSnapshot == \E s \in GameSockets : GameState(s)

SpecSnapshot == InitSnapshot /\ [][NextSnapshot]_vars

(***************************************************************************)
(* SpecTabs: user u1 with two connections (s1, s2) and user u2 with one    *)
(* (s3), starting from a game that has just started in room A: connects    *)
(* and disconnects in any order, leaving and rejoining, a game that can    *)
(* end by checkmate or on time, and the rematch protocol.                  *)
(***************************************************************************)
TabSockets == {"s1", "s2", "s3"}
TabMoves == {Move("A", "e2", "a1"), Move("A", "e2", "a3")}

NextTabs ==
    \/ Tick(MaxTicks)
    \/ \E s \in TabSockets : Connect(s)
    \/ \E s \in TabSockets : Disconnect(s)
    \/ \E s \in TabSockets : RoomJoin(s, " A ")
    \/ \E s \in TabSockets : RoomLeave(s)
    \/ \E s \in TabSockets : GameState(s)
    \/ \E s \in TabSockets, payload \in TabMoves : ChessMoveEvent(s, payload)
    \/ \E s \in TabSockets : RematchRequest(s)
    \/ \E s \in TabSockets, accept \in BOOLEAN : RematchRespond(s, accept)

SpecTabs == InitGame /\ [][NextTabs]_vars

(***************************************************************************)
(* SpecColors: the ways a game is created.  Two players, from a game that  *)
(* has just started: the game can end by checkmate and be replaced by a    *)
(* rematch, and either player can leave and join again (in either order).  *)
(***************************************************************************)
NextColors ==
    \/ \E s \in GameSockets : RoomJoin(s, " A ")
    \/ \E s \in GameSockets : RoomLeave(s)
    \/ \E s \in GameSockets, payload \in TabMoves : ChessMoveEvent(s, payload)
    \/ \E s \in GameSockets : RematchRequest(s)
    \/ \E s \in GameSockets, accept \in BOOLEAN : RematchRespond(s, accept)

SpecColors == InitGame /\ [][NextColors]_vars

(***************************************************************************)
(* SpecInviteTabs: u3 (socket s4) creates, leaves and names rooms and      *)
(* invites; the target u1 has two connections (s1, s2) that open and       *)
(* close at any time, also while the friendship lookup is pending.         *)
(***************************************************************************)
InviteTabSockets == {"s1", "s2", "s4"}
TabInvites == {Invite(" u1", ""), Invite(" u1", "a"), Invite(" u1", "B"), Invite("u3 ", ""),
               Invite("", "a"), Invite("u2", "")}

NextInviteTabs ==
    \/ \E s \in InviteTabSockets : Connect(s)
    \/ \E s \in InviteTabSockets : Disconnect(s)
    \/ RoomCreate("s4", "a")
    \/ RoomLeave("s4")
    \/ \E s \in {"s1", "s4"}, payload \in TabInvites : InviteSend(s, payload)
    \/ \E h \in inFlight, lookup \in Lookups : InviteResume(h, lookup)

SpecInviteTabs == Init /\ [][NextInviteTabs]_vars

(***************************************************************************)
(* The handshake: io.use(...) with extractToken and verifyToken.           *)
(*                                                                         *)
(* A token is named by what jwt.verify makes of it.  A handshake carries   *)
(* handshake.auth.token (absent, blank, or a token, possibly padded with   *)
(* spaces) and an authorization header (absent, "Basic <token>",           *)
(* "Bearer <token>", "Bearer " alone, or "Bearer  <token>" with two        *)
(* spaces, whose split(" ")[1] is empty).                                  *)
(***************************************************************************)
Tokens == {"good", "forged", "expired", "text", "nouserid", "noemail", "nousername", "numericid"}

\* jwt.verify(token, secret): throws, or returns the decoded payload
Decode(token) ==
    CASE token \in {"forged", "expired"} -> [throws |-> TRUE]
      [] token = "text" -> [throws |-> FALSE, object |-> FALSE]
      [] OTHER -> [throws |-> FALSE, object |-> TRUE,
                   userId |-> CASE token = "nouserid" -> "undefined"
                                [] token = "numericid" -> "number"
                                [] OTHER -> "string",
                   email |-> IF token = "noemail" THEN "undefined" ELSE "string",
                   username |-> IF token = "nousername" THEN "undefined" ELSE "string"]

\* Faulty variant: the payload is accepted without an email.
verifyTokenNoEmail(token) ==
    LET decoded == Decode(token) IN
    IF decoded.throws THEN FALSE
    ELSE IF ~decoded.object THEN FALSE
    ELSE decoded.userId = "string" /\ decoded.username = "string"

\* Whether verifyToken(token) returns a payload (not null).
verifyToken(token) ==
    LET decoded == Decode(token) IN
    IF decoded.throws THEN FALSE
    ELSE IF ~decoded.object THEN FALSE
    ELSE IF decoded.userId # "string" \/ decoded.email # "string" \/ decoded.username # "string"
         THEN FALSE
    ELSE TRUE

AuthFields == [kind : {"absent", "blank"}] \cup [kind : {"token", "padded"}, token : Tokens]
HeaderFields == [kind : {"absent", "bearer-only"}]
                \cup [kind : {"basic", "bearer", "bearer-2sp"}, token : Tokens]
NoToken == "null"

\* extractToken(socket): the token, or NoToken for null
extractToken(handshake) ==
    IF handshake.auth.kind \in {"token", "padded"} THEN handshake.auth.token
    ELSE IF handshake.header.kind \notin {"bearer", "bearer-only", "bearer-2sp"} THEN NoToken
    ELSE IF handshake.header.kind = "bearer" THEN handshake.header.token
    ELSE NoToken

\* The handshakes the model tries.
Handshakes ==
    {[auth |-> a, header |-> h] :
        a \in {[kind |-> "absent"], [kind |-> "blank"], [kind |-> "padded", token |-> "good"],
               [kind |-> "token", token |-> "forged"], [kind |-> "token", token |-> "noemail"]},
        h \in {[kind |-> "absent"], [kind |-> "bearer-only"], [kind |-> "basic", token |-> "good"],
               [kind |-> "bearer-2sp", token |-> "good"], [kind |-> "bearer", token |-> "good"],
               [kind |-> "bearer", token |-> "text"], [kind |-> "bearer", token |-> "numericid"],
               [kind |-> "bearer", token |-> "nouserid"], [kind |-> "bearer", token |-> "nousername"],
               [kind |-> "bearer", token |-> "expired"]}}

\* A client opens socket s with the given handshake: the middleware lets it
\* through to the connection handler (as the user its token names) or
\* refuses it with next(new Error("Unauthorized")).
Handshake(s, handshake) ==
    LET token == extractToken(handshake) IN
    IF token # NoToken /\ verifyToken(token)
    THEN Connect(s)
    ELSE /\ s \notin connected
         /\ last' = Handled("handshake", s, handshake, <<>>,
                       <<Emit("connect_error", {s}, [kind |-> "error", message |-> "Unauthorized"])>>)
         /\ UNCHANGED <<now, rooms, roomByUserId, socketsByUserId, onlineUsers,
                        rematchAcceptedByRoomId, connected, joined, inFlight>>

(***************************************************************************)
(* SpecAuth: sockets are opened with every kind of handshake; those that   *)
(* are let in can create, join and leave a room and close.                 *)
(***************************************************************************)
NextAuth ==
    \/ \E s \in GameSockets, handshake \in Handshakes : Handshake(s, handshake)
    \/ \E s \in GameSockets : Disconnect(s)
    \/ \E s \in GameSockets : RoomCreate(s, "a")
    \/ \E s \in GameSockets : RoomJoin(s, " A ")
    \/ \E s \in GameSockets : RoomLeave(s)

SpecAuth == Init /\ [][NextAuth]_vars

(***************************************************************************)
(* The draw offer protocol: game:draw:request and game:draw:respond.       *)
(* The Game owns pendingDraw, the set of users whose offer awaits an       *)
(* answer; a game that never saw an offer has the empty set.  An offer is  *)
(* valid only while the game is active and the requester is seated.  The   *)
(* wording of the refusals is the gateway's wording for the same           *)
(* conditions of chess:move and game:rematch:respond.                      *)
(***************************************************************************)
PendingDraw(game) == IF "pendingDraw" \in DOMAIN game THEN game.pendingDraw ELSE {}
WithPendingDraw(game, pending) == [x \in DOMAIN game \cup {"pendingDraw"} |->
                                     IF x = "pendingDraw" THEN pending ELSE game[x]]

\* The refusal of a draw request or response before the offer is looked at, "" if none.
DrawError(rms, rbu, userId, t) ==
    IF userId \notin DOMAIN rbu THEN "You are not in a room"
    ELSE IF ~HasGame(rms[rbu[userId]]) THEN "Game has not started"
    ELSE LET room == rms[rbu[userId]]
             game == GameOf(room)
         IN
         IF SnapExists(room) /\ getGameSnapshot(room, t).status # "active" THEN "Game is already over"
         ELSE IF userId # game.whiteUserId /\ userId # game.blackUserId
              THEN "You are not a player in this game"
         ELSE ""

\* Faulty variant: an acceptance counts without an offer of the opponent.
DrawOfferedAlways(pending, opponentUserId) == TRUE

\* Whether accept=true of a player answers an offer: the opponent is pending.
DrawOffered(pending, opponentUserId) == opponentUserId \in pending

\* proposeDraw(user)
DrawRequest(s) ==
    LET userId == SocketUser(s)
        err == DrawError(rooms, roomByUserId, userId, now)
    IN
    /\ s \in connected
    /\ IF err # ""
       THEN /\ rooms' = IF userId \in DOMAIN roomByUserId
                        THEN SnapRooms(rooms, roomByUserId[userId], now) ELSE rooms
            /\ last' = Handled("game:draw:request", s, NoData, <<AckErr(err)>>, <<>>)
       ELSE LET roomId == roomByUserId[userId]
                sampled == SnapRoom(rooms[roomId], now)
                game == GameOf(sampled)
                opponentUserId == IF game.whiteUserId = userId THEN game.blackUserId ELSE game.whiteUserId
                pending == PendingDraw(game) \cup {userId}
            IN
            /\ rooms' = [rooms EXCEPT ![roomId] =
                            [sampled EXCEPT !.game = <<WithPendingDraw(game, pending)>>]]
            /\ last' = Handled("game:draw:request", s, NoData,
                          <<AckOk([kind |-> "draw", waitingFor |-> opponentUserId])>>,
                          <<Emit("game:draw:requested", MapGet(socketsByUserId, opponentUserId),
                                 [kind |-> "request", roomId |-> roomId, from |-> userId]),
                            Emit("game:draw:status", roomId,
                                 [kind |-> "status", status |-> "requested", by |-> userId])>>)
    /\ UNCHANGED <<now, roomByUserId, socketsByUserId, onlineUsers, rematchAcceptedByRoomId,
                   connected, joined, inFlight>>

\* respondDraw(user, accept)
DrawRespond(s, accept) ==
    LET userId == SocketUser(s)
        err == DrawError(rooms, roomByUserId, userId, now)
    IN
    /\ s \in connected
    /\ IF err # ""
       THEN /\ rooms' = IF userId \in DOMAIN roomByUserId
                        THEN SnapRooms(rooms, roomByUserId[userId], now) ELSE rooms
            /\ last' = Handled("game:draw:respond", s, [accept |-> accept], <<AckErr(err)>>, <<>>)
       ELSE LET roomId == roomByUserId[userId]
                sampled == SnapRoom(rooms[roomId], now)
                game == GameOf(sampled)
                opponentUserId == IF game.whiteUserId = userId THEN game.blackUserId ELSE game.whiteUserId
            IN
            IF ~accept
            THEN /\ rooms' = [rooms EXCEPT ![roomId] =
                                 [sampled EXCEPT !.game = <<WithPendingDraw(game, {})>>]]
                 /\ last' = Handled("game:draw:respond", s, [accept |-> accept],
                               <<AckOk([kind |-> "draw", accepted |-> FALSE])>>,
                               <<Emit("game:draw:status", roomId,
                                      [kind |-> "status", status |-> "declined", by |-> userId])>>)
            ELSE IF ~DrawOffered(PendingDraw(game), opponentUserId)
            THEN /\ rooms' = [rooms EXCEPT ![roomId] = sampled]
                 /\ last' = Handled("game:draw:respond", s, [accept |-> accept],
                               <<AckErr("No draw request to respond to")>>, <<>>)
            ELSE LET agreed == [WithPendingDraw(game, {}) EXCEPT !.agreedDraw = TRUE]
                     rms == [rooms EXCEPT ![roomId] = [sampled EXCEPT !.game = <<agreed>>]]
                 IN
                 /\ rooms' = SnapRooms(rms, roomId, now)
                 /\ last' = Handled("game:draw:respond", s, [accept |-> accept],
                               <<AckOk([kind |-> "draw", accepted |-> TRUE])>>,
                               broadcastGameState(rms, roomId, now))
    /\ UNCHANGED <<now, roomByUserId, socketsByUserId, onlineUsers, rematchAcceptedByRoomId,
                   connected, joined, inFlight>>

(***************************************************************************)
(* SpecDraw: a started game in room A; time passes, the players move,      *)
(* offer and answer draws, ask for the state, leave and come back.         *)
(***************************************************************************)
NextDraw ==
    \/ Tick(MaxTicks)
    \/ \E s \in GameSockets : DrawRequest(s)
    \/ \E s \in GameSockets, accept \in BOOLEAN : DrawRespond(s, accept)
    \/ \E s \in GameSockets, payload \in TabMoves : ChessMoveEvent(s, payload)
    \/ \E s \in GameSockets : GameState(s)
    \/ \E s \in GameSockets : RoomLeave(s)
    \/ \E s \in GameSockets : RoomJoin(s, " A ")

SpecDraw == InitGame /\ [][NextDraw]_vars

(***************************************************************************)
(* Events whose arguments are not what the handler's signature expects:    *)
(* a null payload, or no ack callback.  No handler has a try/catch and     *)
(* the process installs no uncaughtException handler, so a TypeError       *)
(* thrown by a handler is an uncaught exception of the server process.     *)
(***************************************************************************)
NullPayload == [kind |-> "null"]
NoCallback == [kind |-> "no-callback"]

\* A handler run that ended in an uncaught exception.
Thrown(ev, s, arg, error) ==
    [ev |-> ev, sock |-> s, arg |-> arg, done |-> FALSE, threw |-> error, acks |-> <<>>, out |-> <<>>]
Threw(l) == "threw" \in DOMAIN l

\* socket.on("room:join", ({ roomId }, callback) => ...) called with a null
\* payload: destructuring the parameter throws before the body runs.
RoomJoinNullPayload(s) ==
    /\ s \in connected
    /\ last' = Thrown("room:join", s, NullPayload, "TypeError")
    /\ UNCHANGED <<now, rooms, roomByUserId, socketsByUserId, onlineUsers,
                   rematchAcceptedByRoomId, connected, joined, inFlight>>

\* socket.on("chess:move") called with a null payload: payload.roomId throws
\* once the user is found to be in a room.
ChessMoveNullPayload(s) ==
    LET userId == SocketUser(s) IN
    /\ s \in connected
    /\ last' = IF userId \notin DOMAIN roomByUserId
               THEN Handled("chess:move", s, NullPayload, <<AckErr("You are not in a room")>>, <<>>)
               ELSE Thrown("chess:move", s, NullPayload, "TypeError")
    /\ UNCHANGED <<now, rooms, roomByUserId, socketsByUserId, onlineUsers,
                   rematchAcceptedByRoomId, connected, joined, inFlight>>

\* socket.on("game:rematch:respond") called with a null payload: payload.accept
\* throws once the sender is found to be a player of an ended game.
RematchRespondNullPayload(s) ==
    LET userId == SocketUser(s) IN
    /\ s \in connected
    /\ IF userId \notin DOMAIN roomByUserId
       THEN /\ last' = Handled("game:rematch:respond", s, NullPayload, <<AckErr("You are not in a room")>>, <<>>)
            /\ UNCHANGED rooms
       ELSE LET roomId == roomByUserId[userId]
                rms == SnapRooms(rooms, roomId, now)
            IN
            /\ rooms' = rms
            /\ IF ~getEndedGameRoom(rooms, roomId, now)
               THEN last' = Handled("game:rematch:respond", s, NullPayload,
                                <<AckErr("No rematch request to respond to")>>, <<>>)
               ELSE IF userId # GameOf(rms[roomId]).whiteUserId /\ userId # GameOf(rms[roomId]).blackUserId
               THEN last' = Handled("game:rematch:respond", s, NullPayload,
                                <<AckErr("Only players can respond to rematch")>>, <<>>)
               ELSE last' = Thrown("game:rematch:respond", s, NullPayload, "TypeError")
    /\ UNCHANGED <<now, roomByUserId, socketsByUserId, onlineUsers, rematchAcceptedByRoomId,
                   connected, joined, inFlight>>

\* socket.on("room:state") called without an ack callback: the first
\* callback(...) the handler reaches throws.
RoomStateNoCallback(s) ==
    LET userId == SocketUser(s) IN
    /\ s \in connected
    /\ roomByUserId' = IF userId \in DOMAIN roomByUserId /\ roomByUserId[userId] \notin DOMAIN rooms
                       THEN MapDelete(roomByUserId, userId) ELSE roomByUserId
    /\ last' = Thrown("room:state", s, NoCallback, "TypeError")
    /\ UNCHANGED <<now, rooms, socketsByUserId, onlineUsers, rematchAcceptedByRoomId,
                   connected, joined, inFlight>>

(***************************************************************************)
(* SpecShapes: a started game in room A; the players move, leave, join,    *)
(* answer rematches, and send events with a null payload or without a      *)
(* callback.  After an uncaught exception the process takes no more steps. *)
(***************************************************************************)
NextShapes ==
    \/ \E s \in GameSockets : ~Threw(last) /\ RoomJoin(s, " A ")
    \/ \E s \in GameSockets : ~Threw(last) /\ RoomLeave(s)
    \/ \E s \in GameSockets, payload \in TabMoves : ~Threw(last) /\ ChessMoveEvent(s, payload)
    \/ \E s \in GameSockets, accept \in BOOLEAN : ~Threw(last) /\ RematchRespond(s, accept)
    \/ \E s \in GameSockets : ~Threw(last) /\ RoomJoinNullPayload(s)
    \/ \E s \in GameSockets : ~Threw(last) /\ ChessMoveNullPayload(s)
    \/ \E s \in GameSockets : ~Threw(last) /\ RematchRespondNullPayload(s)
    \/ \E s \in GameSockets : ~Threw(last) /\ RoomStateNoCallback(s)

SpecShapes == InitGame /\ [][NextShapes]_vars

(***************************************************************************)
(* Properties.                                                             *)
(***************************************************************************)
\* What the last handler says about itself.
Acked(l) == Len(l.acks) = 1
AckedOk(l) == Acked(l) /\ l.acks[1].ok
AckedErr(l, msg) == Acked(l) /\ ~l.acks[1].ok /\ l.acks[1].error = msg
Emitted(l, ev) == \E i \in 1..Len(l.out) : l.out[i].ev = ev
\* The user-id of the socket that sent the last event.
Sender(l) == SocketUser(l.sock)

\* C1: the user-to-room index and the rooms' player lists agree in both
\* directions: an indexed user's room exists, holds the user and has 1 or 2
\* players; every player of a room is indexed to that room.
C1_IndexAgrees ==
    /\ \A u \in DOMAIN roomByUserId :
         /\ roomByUserId[u] \in DOMAIN rooms
         /\ u \in SeqRange(rooms[roomByUserId[u]].players)
         /\ Len(rooms[roomByUserId[u]].players) \in {1, 2}
    /\ \A r \in DOMAIN rooms : \A i \in 1..Len(rooms[r].players) :
         /\ rooms[r].players[i] \in DOMAIN roomByUserId
         /\ roomByUserId[rooms[r].players[i]] = r
         /\ \A j \in 1..Len(rooms[r].players) : rooms[r].players[j] = rooms[r].players[i] => j = i

\* C1 witness: a player has just left a two-player room while a second room
\* exists, so create, join and leave have all acted.
C1_Witness ==
    /\ last.ev = "room:leave" /\ AckedOk(last)
    /\ Cardinality(DOMAIN rooms) = 2
    /\ Cardinality(DOMAIN roomByUserId) = 2
    /\ Emitted(last, "room:error")

\* C2: a room with a game has exactly 2 players, and the game's white and
\* black are distinct members of the room.
C2_GameHasBothPlayers ==
    \A r \in DOMAIN rooms :
        HasGame(rooms[r]) =>
            /\ Len(rooms[r].players) = 2
            /\ GameOf(rooms[r]).whiteUserId # GameOf(rooms[r]).blackUserId
            /\ GameOf(rooms[r]).whiteUserId \in SeqRange(rooms[r].players)
            /\ GameOf(rooms[r]).blackUserId \in SeqRange(rooms[r].players)

\* C2 witness: a game started by a join into a room whose first player had
\* been replaced (the room's creator is gone), with the joiner as white.
C2_Witness ==
    \E r \in DOMAIN rooms :
        /\ HasGame(rooms[r])
        /\ last.ev = "room:join" /\ Emitted(last, "game:start")
        /\ rooms[r].players = <<"u2", "u3">>
        /\ GameOf(rooms[r]).whiteUserId = "u3"

\* The events whose handler is given an ack callback.
AckEvents == {"room:create", "room:join", "room:leave", "room:state", "game:state",
              "chess:move", "invite:send", "game:rematch:request", "game:rematch:respond"}

\* C3: every handler of an ack-bearing event that has run to its end invoked
\* the ack exactly once, with ok:true or with ok:false and an error.
C3_AckedExactlyOnce ==
    (last.done /\ last.ev \in AckEvents) =>
        /\ Len(last.acks) = 1
        /\ (last.acks[1].ok \/ last.acks[1].error # "")

\* C5: for a chess:move from a user seated in the room the payload names, the
\* ack carries the error of the first failing check, in the order: game
\* exists, snapshot active, user is a player, user's turn, squares given,
\* engine accepts; it is ok only if none fails.
C5_Expected(room, u, payload, t) ==
    IF ~HasGame(room) THEN "Game not started"
    ELSE LET g == GameOf(room)
             elapsed == IF g.lastTickAt > 0 /\ t > g.lastTickAt THEN t - g.lastTickAt ELSE 0
             left == [c \in Colors |-> IF c = g.chess.turn THEN g.clockMs[c] - elapsed ELSE g.clockMs[c]]
             over == \/ left["w"] <= 0 \/ left["b"] <= 0 \/ g.agreedDraw
                     \/ g.chess.kind \notin {"normal", "check"}
         IN CASE over -> "Game is already over"
              [] ~over /\ u \notin {g.whiteUserId, g.blackUserId} -> "You are not a player in this game"
              [] ~over /\ u = g.whiteUserId /\ g.chess.turn # "w" -> "Not your turn"
              [] ~over /\ u = g.blackUserId /\ u # g.whiteUserId /\ g.chess.turn # "b" -> "Not your turn"
              [] OTHER ->
                   IF payload.from \in {"", "  "} \/ payload.to \in {"", "  "}
                   THEN "Move must include from and to squares"
                   ELSE IF payload.from \notin {"e2", " E2 "} \/ payload.to = "zz"
                        THEN "Illegal move"
                        ELSE ""

C5_CheckOrder ==
    [][(last'.ev = "chess:move"
        /\ Sender(last') \in DOMAIN roomByUserId
        /\ last'.arg.roomId = roomByUserId[Sender(last')]
        /\ roomByUserId[Sender(last')] \in DOMAIN rooms
        /\ Sender(last') \in SeqRange(rooms[roomByUserId[Sender(last')]].players))
       => LET want == C5_Expected(rooms[roomByUserId[Sender(last')]], Sender(last'), last'.arg, now)
          IN IF want = "" THEN AckedOk(last') ELSE AckedErr(last', want)]_vars

\* C5 witness: an out-of-turn move with an empty target square was answered
\* "Not your turn".
C5_Witness ==
    /\ last.ev = "chess:move" /\ AckedErr(last, "Not your turn")
    /\ last.arg.to = ""

\* C5 witness of the other example: a move that is out of turn on a finished
\* game was answered "Game is already over".
C5_WitnessOver ==
    /\ last.ev = "chess:move" /\ AckedErr(last, "Game is already over")
    /\ \E r \in DOMAIN rooms :
         /\ HasGame(rooms[r])
         /\ Sender(last) = GameOf(rooms[r]).whiteUserId
         /\ GameOf(rooms[r]).chess.turn = "b"

\* C10: on a game that stays the same game, the side to move flips from the
\* mover's colour to the other one in a step that acks a chess:move ok, and
\* is unchanged by every other step.
C10_TurnFlipsOncePerMove ==
    [][\A r \in DOMAIN rooms :
         (HasGame(rooms[r]) /\ r \in DOMAIN rooms' /\ HasGame(rooms'[r]) /\ ~Emitted(last', "game:start"))
         => IF last'.ev = "chess:move" /\ AckedOk(last') /\ Sender(last') \in SeqRange(rooms[r].players)
            THEN /\ GameOf(rooms'[r]).chess.turn = Opposite(GameOf(rooms[r]).chess.turn)
                 /\ Sender(last') = (IF GameOf(rooms[r]).chess.turn = "w"
                                     THEN GameOf(rooms[r]).whiteUserId
                                     ELSE GameOf(rooms[r]).blackUserId)
            ELSE GameOf(rooms'[r]).chess.turn = GameOf(rooms[r]).chess.turn]_vars

\* C10 witness: black has just moved (so two moves were accepted) and it is
\* white's turn again.
C10_Witness ==
    /\ last.ev = "chess:move" /\ AckedOk(last)
    /\ \E r \in DOMAIN rooms :
         /\ HasGame(rooms[r])
         /\ GameOf(rooms[r]).chess.turn = "w"
         /\ Sender(last) = GameOf(rooms[r]).blackUserId

\* The clocks of game g once the time elapsed up to t is charged to the side
\* to move (unfloored), if the clock is running.
C4_Folded(g, t) ==
    [c \in Colors |->
        IF c = g.chess.turn /\ g.lastTickAt > 0 /\ t > g.lastTickAt
        THEN g.clockMs[c] - (t - g.lastTickAt) ELSE g.clockMs[c]]

\* C4: when the time elapsed at receipt brings a clock to 0 (or below), a
\* chess:move of a seated player for that room is acked "Game is already
\* over", the position is unchanged, and the snapshot reports timeout with
\* the other side as winner.
C4_NoMoveAfterFlagFall ==
    [][\A r \in DOMAIN rooms :
         (/\ last'.ev = "chess:move"
          /\ Sender(last') \in SeqRange(rooms[r].players)
          /\ last'.arg.roomId = r
          /\ HasGame(rooms[r])
          /\ \E c \in Colors : C4_Folded(GameOf(rooms[r]), now)[c] <= 0)
         => /\ AckedErr(last', "Game is already over")
            /\ r \in DOMAIN rooms' /\ HasGame(rooms'[r])
            /\ GameOf(rooms'[r]).chess = GameOf(rooms[r]).chess
            /\ getGameSnapshot(rooms'[r], now').status = "timeout"
            /\ \A c \in Colors :
                 C4_Folded(GameOf(rooms[r]), now)[c] <= 0
                 => /\ getGameSnapshot(rooms'[r], now').winnerColor = Opposite(c)
                    /\ GameOf(rooms'[r]).clockMs[Opposite(c)] > 0]_vars

\* C4 witness: black's clock ran out while black was to move, and black's own
\* move, sent after that, was rejected.
C4_Witness ==
    /\ last.ev = "chess:move" /\ AckedErr(last, "Game is already over")
    /\ HasGame(rooms["A"])
    /\ GameOf(rooms["A"]).clockMs["b"] = 0
    /\ GameOf(rooms["A"]).chess.turn = "b"
    /\ Sender(last) = GameOf(rooms["A"]).blackUserId
    /\ last.arg.to = "a1" /\ last.arg.from = "e2"

\* C6: a chess:move acked ok:false leaves every room as it was: players,
\* colours, position and side to move, agreed draw, and the pending rematch
\* sets and the index; a clock changes only by the elapsed time being charged
\* to the side to move.
C6_RejectedMoveChangesNothing ==
    [][(last'.ev = "chess:move" /\ Acked(last') /\ ~last'.acks[1].ok)
       => /\ DOMAIN rooms' = DOMAIN rooms
          /\ roomByUserId' = roomByUserId
          /\ rematchAcceptedByRoomId' = rematchAcceptedByRoomId
          /\ \A r \in DOMAIN rooms :
               /\ rooms'[r].players = rooms[r].players
               /\ HasGame(rooms'[r]) = HasGame(rooms[r])
               /\ HasGame(rooms[r]) =>
                    LET g == GameOf(rooms[r])
                        h == GameOf(rooms'[r])
                    IN /\ h.chess = g.chess
                       /\ h.whiteUserId = g.whiteUserId /\ h.blackUserId = g.blackUserId
                       /\ h.agreedDraw = g.agreedDraw
                       /\ h.clockMs[Opposite(g.chess.turn)] = g.clockMs[Opposite(g.chess.turn)]
                       /\ h.clockMs[g.chess.turn]
                            \in {g.clockMs[g.chess.turn], Max(0, C4_Folded(g, now)[g.chess.turn])}]_vars

\* C6 witness: an illegal move was rejected after time had passed, and the
\* elapsed time was charged to the side to move.
C6_Witness ==
    /\ last.ev = "chess:move" /\ AckedErr(last, "Illegal move")
    /\ HasGame(rooms["A"])
    /\ GameOf(rooms["A"]).lastTickAt = now
    /\ GameOf(rooms["A"]).clockMs[GameOf(rooms["A"]).chess.turn] < INITIAL_CLOCK_MS

\* The precedence of the claim, condition by condition.
C7_Expected(g) ==
    CASE g.clockMs["w"] <= 0 -> <<"timeout", "b">>
      [] g.clockMs["w"] > 0 /\ g.clockMs["b"] <= 0 -> <<"timeout", "w">>
      [] g.clockMs["w"] > 0 /\ g.clockMs["b"] > 0 /\ g.agreedDraw -> <<"draw", "none">>
      [] OTHER ->
           IF g.chess.kind \in {"checkmate", "checkmate_fifty"}
           THEN <<"checkmate", IF g.chess.turn = "w" THEN "b" ELSE "w">>
           ELSE IF g.chess.kind \in {"stalemate", "stalemate_insufficient"} THEN <<"stalemate", "none">>
           ELSE IF g.chess.kind \in {"insufficient", "insufficient_threefold"}
                THEN <<"insufficient_material", "none">>
           ELSE IF g.chess.kind = "threefold" THEN <<"threefold_repetition", "none">>
           ELSE IF g.chess.kind = "fifty" THEN <<"draw", "none">>
           ELSE <<"active", "none">>

\* C7: the snapshot a game:state request returns has the status and winner of
\* the fixed precedence: white clock, black clock, agreed draw, checkmate,
\* stalemate, insufficient material, threefold repetition, draw, else active
\* (evaluated on the game as the snapshot left it, i.e. with the clock folded).
C7_StatusPrecedence ==
    (last.ev = "game:state" /\ AckedOk(last)) =>
        /\ HasGame(rooms["A"])
        /\ <<last.acks[1].data.status, last.acks[1].data.winnerColor>> = C7_Expected(GameOf(rooms["A"]))
        /\ last.acks[1].data.clockMs = GameOf(rooms["A"]).clockMs

\* C7 witness: a snapshot of a game with an agreed draw, a checkmate on the
\* board and an expired white clock reported timeout, won by black.
C7_Witness ==
    /\ last.ev = "game:state" /\ AckedOk(last)
    /\ last.acks[1].data.status = "timeout" /\ last.acks[1].data.winnerColor = "b"
    /\ GameOf(rooms["A"]).agreedDraw
    /\ GameOf(rooms["A"]).chess.kind = "checkmate"

\* The snapshots the last handler returned in its ack or emitted.
C8_Reported(l) ==
    {l.acks[i].data : i \in {j \in 1..Len(l.acks) : l.acks[j].data.kind = "snapshot"}}
    \cup {l.out[i].data : i \in {j \in 1..Len(l.out) : l.out[j].data.kind = "snapshot"}}

\* C8: a handler that reported a snapshot with a status other than active
\* leaves the game with lastTickAt null; and a game whose stored state is not
\* active has lastTickAt null and keeps both clock values through every step
\* that does not replace the game.
C8_TerminalClockFrozen ==
    [][\A r \in DOMAIN rooms' :
         /\ (HasGame(rooms'[r]) /\ ~Emitted(last', "game:start")
             /\ \E snap \in C8_Reported(last') : snap.roomId = r /\ snap.status # "active")
            => GameOf(rooms'[r]).lastTickAt = NoTick
         /\ (HasGame(rooms'[r]) /\ SnapStatus(GameOf(rooms'[r])) # "active")
            => GameOf(rooms'[r]).lastTickAt = NoTick
         /\ (r \in DOMAIN rooms /\ HasGame(rooms[r]) /\ HasGame(rooms'[r])
             /\ SnapStatus(GameOf(rooms[r])) # "active" /\ ~Emitted(last', "game:start"))
            => /\ GameOf(rooms'[r]).clockMs = GameOf(rooms[r]).clockMs
               /\ GameOf(rooms'[r]).lastTickAt = NoTick]_vars

\* C8 witness: a game that ended by checkmate before any time passed is asked
\* for its state after the wall clock advanced, and both clocks are still full.
C8_Witness ==
    /\ last.ev = "game:state" /\ AckedOk(last)
    /\ last.acks[1].data.status = "checkmate"
    /\ now > StartNow
    /\ GameOf(rooms["A"]).clockMs = [c \in Colors |-> INITIAL_CLOCK_MS]
    /\ GameOf(rooms["A"]).lastTickAt = NoTick

\* C9: both clocks stay within 0..180000; through every step that keeps the
\* game, the clock of the side that is not to move is unchanged and the clock
\* of the side to move is unchanged or reduced by the elapsed time, floored
\* at 0.
C9_ClocksOnlyRunDown ==
    [][\A r \in DOMAIN rooms' :
         HasGame(rooms'[r]) =>
           /\ \A c \in Colors : GameOf(rooms'[r]).clockMs[c] \in 0..INITIAL_CLOCK_MS
           /\ (r \in DOMAIN rooms /\ HasGame(rooms[r]) /\ ~Emitted(last', "game:start"))
              => LET g == GameOf(rooms[r])
                     h == GameOf(rooms'[r])
                 IN /\ h.clockMs[Opposite(g.chess.turn)] = g.clockMs[Opposite(g.chess.turn)]
                    /\ h.clockMs[g.chess.turn] <= g.clockMs[g.chess.turn]
                    /\ h.clockMs[g.chess.turn]
                         \in {g.clockMs[g.chess.turn], Max(0, C4_Folded(g, now)[g.chess.turn])}]_vars

\* C9 witness: black moved after white did, and was then charged more time
\* than black had left: black's clock is 0, white's is untouched.
C9_Witness ==
    /\ HasGame(rooms["A"])
    /\ GameOf(rooms["A"]).chess.turn = "b"
    /\ GameOf(rooms["A"]).clockMs["w"] = INITIAL_CLOCK_MS
    /\ GameOf(rooms["A"]).clockMs["b"] = 0
    /\ 2 * TickMs > INITIAL_CLOCK_MS
    /\ now = StartNow + 2 * TickMs

\* The rematch events.
RematchEvents == {"game:rematch:request", "game:rematch:respond"}

\* C11: a rematch handler starts a new game only if the sender is a player of
\* an ended game whose opponent, another seated player, is already in the
\* pending rematch set; and a user enters a pending set only by that user's
\* own request or accept acked ok.  Hence one player's events alone never
\* start a game.
C11_RematchNeedsBoth ==
    [][/\ (last'.ev \in RematchEvents /\ Emitted(last', "game:start"))
          => /\ Sender(last') \in DOMAIN roomByUserId
             /\ LET r == roomByUserId[Sender(last')]
                    u == Sender(last')
                IN /\ HasGame(rooms[r])
                   /\ getGameSnapshot(rooms[r], now).status # "active"
                   /\ u \in {GameOf(rooms[r]).whiteUserId, GameOf(rooms[r]).blackUserId}
                   /\ \E o \in MapGet(rematchAcceptedByRoomId, r) :
                        /\ o # u
                        /\ o \in {GameOf(rooms[r]).whiteUserId, GameOf(rooms[r]).blackUserId}
                        /\ o \in SeqRange(rooms[r].players)
                   /\ (last'.ev = "game:rematch:respond" => last'.arg.accept)
       /\ \A r \in DOMAIN rematchAcceptedByRoomId' :
            \A u \in rematchAcceptedByRoomId'[r] \ MapGet(rematchAcceptedByRoomId, r) :
               /\ last'.ev \in RematchEvents /\ AckedOk(last')
               /\ Sender(last') = u
               /\ roomByUserId[u] = r
               /\ (last'.ev = "game:rematch:respond" => last'.arg.accept)
       /\ \A r \in DOMAIN rooms :
            (HasGame(rooms[r]) /\ r \in DOMAIN rooms' /\ Emitted(last', "game:start")
             /\ \E i \in 1..Len(last'.out) : last'.out[i].ev = "game:start" /\ last'.out[i].to = r)
            => last'.ev \in RematchEvents]_vars

\* C11 witness: an accept by the player whose opponent had requested started
\* the rematch.
C11_Witness ==
    /\ last.ev = "game:rematch:respond" /\ AckedOk(last)
    /\ last.arg.accept
    /\ last.acks[1].data.started
    /\ Emitted(last, "game:start")
    /\ HasGame(rooms[roomByUserId[Sender(last)]])

\* The parts of a game that no clock sampling touches.
GameIdentity(g) == <<g.chess, g.whiteUserId, g.blackUserId, g.agreedDraw>>

\* C12: a game:rematch:request of a seated user is acked ok only if the room
\* has a game whose snapshot status is not active; if the game is active or
\* absent the ack is "Rematch is only available after game over", the pending
\* rematch sets are unchanged and so is the game (position, colours, agreed
\* draw and the snapshot taken at that instant; the stored clock is only
\* sampled).
C12_RematchOnlyAfterGameOver ==
    [][(last'.ev = "game:rematch:request" /\ Sender(last') \in DOMAIN roomByUserId)
       => LET r == roomByUserId[Sender(last')]
              ended == HasGame(rooms[r]) /\ getGameSnapshot(rooms[r], now).status # "active"
          IN /\ AckedOk(last') => ended
             /\ ~ended =>
                  /\ AckedErr(last', "Rematch is only available after game over")
                  /\ rematchAcceptedByRoomId' = rematchAcceptedByRoomId
                  /\ roomByUserId' = roomByUserId
                  /\ DOMAIN rooms' = DOMAIN rooms
                  /\ rooms'[r].players = rooms[r].players
                  /\ HasGame(rooms'[r]) = HasGame(rooms[r])
                  /\ HasGame(rooms[r]) =>
                       /\ GameIdentity(GameOf(rooms'[r])) = GameIdentity(GameOf(rooms[r]))
                       /\ getGameSnapshot(rooms'[r], now') = getGameSnapshot(rooms[r], now)
                       /\ getGameSnapshot(rooms'[r], now').status = "active"
                  /\ ~Emitted(last', "game:start")]_vars

\* C12 witness: a rematch was requested during an active game after time had
\* passed, and was refused.
C12_Witness ==
    /\ last.ev = "game:rematch:request"
    /\ AckedErr(last, "Rematch is only available after game over")
    /\ HasGame(rooms["A"])
    /\ now > StartNow
    /\ GameOf(rooms["A"]).lastTickAt = now
    /\ GameOf(rooms["A"]).clockMs[GameOf(rooms["A"]).chess.turn] < INITIAL_CLOCK_MS

\* C13: a game:rematch:respond with accept = false acked ok (sent by a player
\* of an ended game) leaves the room's pending rematch set empty and the game
\* as it was; and while the set is empty, one rematch request or accept never
\* starts a game.
C13_DeclineClearsPending ==
    [][(last'.ev \in RematchEvents /\ Sender(last') \in DOMAIN roomByUserId)
       => LET r == roomByUserId[Sender(last')]
              u == Sender(last')
          IN /\ (last'.ev = "game:rematch:respond" /\ ~last'.arg.accept)
                => /\ AckedOk(last')
                      <=> /\ HasGame(rooms[r])
                          /\ getGameSnapshot(rooms[r], now).status # "active"
                          /\ u \in {GameOf(rooms[r]).whiteUserId, GameOf(rooms[r]).blackUserId}
                   /\ AckedOk(last')
                      => /\ MapGet(rematchAcceptedByRoomId', r) = {}
                         /\ ~last'.acks[1].data.started
                         /\ HasGame(rooms'[r])
                         /\ rooms'[r].players = rooms[r].players
                         /\ GameIdentity(GameOf(rooms'[r])) = GameIdentity(GameOf(rooms[r]))
                         /\ getGameSnapshot(rooms'[r], now') = getGameSnapshot(rooms[r], now)
                         /\ ~Emitted(last', "game:start")
             /\ MapGet(rematchAcceptedByRoomId, r) = {} => ~Emitted(last', "game:start")]_vars

\* C13 witness: a player declined a rematch of a game that was lost on time.
C13_Witness ==
    /\ last.ev = "game:rematch:respond" /\ ~last.arg.accept /\ AckedOk(last)
    /\ Emitted(last, "game:rematch:status")
    /\ HasGame(rooms["A"])
    /\ SnapStatus(GameOf(rooms["A"])) = "timeout"
    /\ MapGet(rematchAcceptedByRoomId, "A") = {}

\* Positions i < j < k of out carrying game:rematch:status{started},
\* game:start and a game:state of a fresh active game, all sent to room r.
C14_StartedInOrder(out, r) ==
    \E i, j, k \in 1..Len(out) :
       /\ i < j /\ j < k
       /\ out[i].ev = "game:rematch:status" /\ out[i].to = r /\ out[i].data.status = "started"
       /\ out[j].ev = "game:start" /\ out[j].to = r
       /\ out[k].ev = "game:state" /\ out[k].to = r
       /\ out[k].data.status = "active" /\ out[k].data.fen = NewChess
       /\ out[k].data.clockMs = [c \in Colors |-> INITIAL_CLOCK_MS]
       /\ \A n \in 1..Len(out) :
            (out[n].ev = "game:rematch:status" /\ out[n].data.status = "started") => n < j

\* C14: when a player of an ended game sends a rematch request or accept and
\* the opponent is already in the pending set, that handler acks started =
\* true, replaces the game by a fresh one, empties the pending set and emits
\* to the room game:rematch:status{started}, then game:start, then the fresh
\* game:state.
C14_RematchStartsAtOnce ==
    [][(/\ last'.ev \in RematchEvents
        /\ (last'.ev = "game:rematch:respond" => last'.arg.accept)
        /\ Sender(last') \in DOMAIN roomByUserId
        /\ LET r == roomByUserId[Sender(last')] IN
             /\ HasGame(rooms[r])
             /\ getGameSnapshot(rooms[r], now).status # "active"
             /\ \E o \in MapGet(rematchAcceptedByRoomId, r) :
                  {o, Sender(last')} = {GameOf(rooms[r]).whiteUserId, GameOf(rooms[r]).blackUserId})
       => LET r == roomByUserId[Sender(last')] IN
          /\ AckedOk(last')
          /\ "started" \in DOMAIN last'.acks[1].data
          /\ last'.acks[1].data.started
          /\ MapGet(rematchAcceptedByRoomId', r) = {}
          /\ HasGame(rooms'[r])
          /\ GameOf(rooms'[r]).chess = NewChess
          /\ GameOf(rooms'[r]).clockMs = [c \in Colors |-> INITIAL_CLOCK_MS]
          /\ GameOf(rooms'[r]).lastTickAt = now'
          /\ rooms'[r].players = rooms[r].players
          /\ C14_StartedInOrder(last'.out, r)]_vars

\* C14 witness: both players requested; the second request started the
\* rematch.
C14_Witness ==
    /\ last.ev = "game:rematch:request" /\ AckedOk(last)
    /\ "started" \in DOMAIN last.acks[1].data
    /\ last.acks[1].data.started
    /\ C14_StartedInOrder(last.out, roomByUserId[Sender(last)])

\* The connections a user has open.
ConnectionsOf(u) == {s \in connected : SocketUser(s) = u}

\* The sockets the emissions of event ev in out are addressed to.
C15_Addressees(out, ev) ==
    UNION {out[i].to : i \in {n \in 1..Len(out) : out[n].ev = ev}}

\* C15: every game:rematch:request acked ok sends game:rematch:requested to
\* every open connection of the requester's opponent and to no other socket.
C15_RequestedReachesOpponent ==
    [][(last'.ev = "game:rematch:request" /\ AckedOk(last'))
       => LET r == roomByUserId[Sender(last')]
              g == GameOf(rooms[r])
              o == IF g.whiteUserId = Sender(last') THEN g.blackUserId ELSE g.whiteUserId
          IN /\ ConnectionsOf(o) # {} => Emitted(last', "game:rematch:requested")
             /\ Emitted(last', "game:rematch:requested")
                => C15_Addressees(last'.out, "game:rematch:requested") = ConnectionsOf(o)]_vars

\* The part of C15 the code does satisfy: a request acked ok that does not
\* start the rematch notifies every connection of the opponent and nobody else.
C15_WaitingRequestReachesOpponent ==
    [][(last'.ev = "game:rematch:request" /\ AckedOk(last')
        /\ "waitingFor" \in DOMAIN last'.acks[1].data)
       => LET r == roomByUserId[Sender(last')]
              g == GameOf(rooms[r])
              o == IF g.whiteUserId = Sender(last') THEN g.blackUserId ELSE g.whiteUserId
          IN /\ Emitted(last', "game:rematch:requested")
             /\ C15_Addressees(last'.out, "game:rematch:requested") = ConnectionsOf(o)]_vars

\* Whether the step created a game in room r: the room has a game now that it
\* did not have, or a game:start was sent to the room.
GameCreated(r) ==
    /\ r \in DOMAIN rooms' /\ HasGame(rooms'[r])
    /\ \/ r \notin DOMAIN rooms
       \/ ~HasGame(rooms[r])
       \/ \E i \in 1..Len(last'.out) : last'.out[i].ev = "game:start" /\ last'.out[i].to = r

\* C16: every game that is created (by a join or by a rematch) is at the
\* initial position with white to move, has both clocks at 180000, a running
\* clock (lastTickAt = the time of creation), agreedDraw false, and its room
\* has an empty pending rematch set.
C16_FreshGame ==
    [][\A r \in RoomIds :
         GameCreated(r)
         => /\ GameOf(rooms'[r]).chess = NewChess
            /\ GameOf(rooms'[r]).chess.turn = "w"
            /\ GameOf(rooms'[r]).clockMs = [c \in Colors |-> INITIAL_CLOCK_MS]
            /\ GameOf(rooms'[r]).lastTickAt = now'
            /\ GameOf(rooms'[r]).lastTickAt # NoTick
            /\ ~GameOf(rooms'[r]).agreedDraw
            /\ MapGet(rematchAcceptedByRoomId', r) = {}
            /\ getGameSnapshot(rooms'[r], now').status = "active"]_vars

\* C16 witness: a rematch has just started after the previous game was lost
\* on time, and the new game has full clocks running from now.
C16_Witness ==
    /\ last.ev \in RematchEvents /\ Emitted(last, "game:start")
    /\ now = StartNow + 2 * TickMs
    /\ HasGame(rooms["A"])
    /\ GameOf(rooms["A"]).clockMs = [c \in Colors |-> INITIAL_CLOCK_MS]
    /\ GameOf(rooms["A"]).lastTickAt = now

\* The events whose handlers can create a game, and the handler of each.
StartEvents == {"room:join"} \cup RematchEvents

StartHandler(ev, sock) ==
    CASE ev = "room:join" -> \E raw \in RawRoomIds : RoomJoin(sock, raw)
      [] ev = "game:rematch:request" -> RematchRequest(sock)
      [] ev = "game:rematch:respond" -> RematchRespond(sock, TRUE)

\* Whether handler ev, sent over sock now, would create a game in room r.
WouldStart(ev, sock, r) ==
    LET u == SocketUser(sock) IN
    /\ sock \in connected
    /\ r \in DOMAIN rooms
    /\ IF ev = "room:join"
       THEN /\ ~HasGame(rooms[r]) /\ Len(rooms[r].players) = 1
            /\ u \notin SeqRange(rooms[r].players)
            /\ u \notin DOMAIN roomByUserId
       ELSE /\ u \in DOMAIN roomByUserId /\ roomByUserId[u] = r
            /\ HasGame(rooms[r])
            /\ getGameSnapshot(rooms[r], now).status # "active"
            /\ \E o \in MapGet(rematchAcceptedByRoomId, r) :
                 {o, u} = {GameOf(rooms[r]).whiteUserId, GameOf(rooms[r]).blackUserId}

\* The step is handler ev of sock and leaves room r with a game in which the
\* sender has colour c.
StartsWithColor(ev, sock, r, c) ==
    /\ StartHandler(ev, sock)
    /\ GameCreated(r)
    /\ SocketUser(sock) = (IF c = "w" THEN GameOf(rooms'[r]).whiteUserId
                           ELSE GameOf(rooms'[r]).blackUserId)
    /\ SeqRange(rooms'[r].players)
         = {GameOf(rooms'[r]).whiteUserId, GameOf(rooms'[r]).blackUserId}

\* While a game is neither replaced nor cleared its colours do not change.
ColorsFixed ==
    \A r \in RoomIds :
       (r \in DOMAIN rooms /\ HasGame(rooms[r]) /\ r \in DOMAIN rooms' /\ HasGame(rooms'[r])
        /\ ~GameCreated(r))
       => /\ GameOf(rooms'[r]).whiteUserId = GameOf(rooms[r]).whiteUserId
          /\ GameOf(rooms'[r]).blackUserId = GameOf(rooms[r]).blackUserId

C18_LeaveClearsGame ==
    [][(last'.ev = "room:leave")
       => LET u == Sender(last') IN
          /\ AckedOk(last') <=> u \in DOMAIN roomByUserId
          /\ AckedOk(last') =>
               LET r == roomByUserId[u] IN
               /\ u \notin DOMAIN roomByUserId'
               /\ \A q \in DOMAIN rooms' : u \notin SeqRange(rooms'[q].players)
               /\ MapGet(rematchAcceptedByRoomId', r) = {}
               /\ r \in DOMAIN rooms' <=> Len(rooms[r].players) > 1
               /\ r \in DOMAIN rooms' =>
                    /\ ~HasGame(rooms'[r])
                    /\ rooms'[r].players = SeqRemove(rooms[r].players, u)
                    /\ Len(rooms'[r].players) = 1
                    /\ roomByUserId'[rooms'[r].players[1]] = r
                    /\ getRoomState(rooms'[r], socketsByUserId').status = "waiting"
               /\ DOMAIN rooms' \ {r} = DOMAIN rooms \ {r}
               /\ \A q \in DOMAIN rooms \ {r} : rooms'[q] = rooms[q]
               /\ \A v \in DOMAIN roomByUserId \ {u} :
                    v \in DOMAIN roomByUserId' /\ roomByUserId'[v] = roomByUserId[v]]_vars

\* C18 witness: a player left a room to which room:error was then sent; the
\* other player is alone in it, without a game, and no pending set is left.
C18_Witness ==
    /\ last.ev = "room:leave" /\ AckedOk(last)
    /\ Sender(last) \notin DOMAIN roomByUserId
    /\ \E i \in 1..Len(last.out) :
         /\ last.out[i].ev = "room:error"
         /\ last.out[i].to \in DOMAIN rooms
         /\ ~HasGame(rooms[last.out[i].to])
         /\ Len(rooms[last.out[i].to].players) = 1
    /\ rematchAcceptedByRoomId = EmptyMap

\* C19: a disconnect (of one of several connections or of the last one)
\* leaves rooms, the index, every game and the pending rematch sets as they
\* were; only the connection and its user's presence entries change.  The
\* user stays seated and the clock keeps running: a snapshot that is taken
\* while the player to move has no connection charges that player the time
\* elapsed since lastTickAt.
C19_DisconnectKeepsSeat ==
    [][/\ (last'.ev = "disconnect")
          => LET u == Sender(last') IN
             /\ rooms' = rooms
             /\ roomByUserId' = roomByUserId
             /\ rematchAcceptedByRoomId' = rematchAcceptedByRoomId
             /\ now' = now
             /\ connected' = connected \ {last'.sock}
             /\ \A v \in Users \ {u} :
                  /\ v \in onlineUsers' <=> v \in onlineUsers
                  /\ MapGet(socketsByUserId', v) = MapGet(socketsByUserId, v)
             /\ MapGet(socketsByUserId', u) = MapGet(socketsByUserId, u) \ {last'.sock}
       /\ (last'.ev = "game:state" /\ AckedOk(last'))
          => LET r == roomByUserId[Sender(last')]
                 g == GameOf(rooms[r])
                 mover == IF g.chess.turn = "w" THEN g.whiteUserId ELSE g.blackUserId
             IN (ConnectionsOf(mover) = {} /\ g.lastTickAt # NoTick)
                => /\ mover \in SeqRange(rooms'[r].players)
                   /\ last'.acks[1].data.clockMs[g.chess.turn]
                        = Max(0, g.clockMs[g.chess.turn] - (now - g.lastTickAt))
                   /\ GameOf(rooms'[r]).clockMs = last'.acks[1].data.clockMs]_vars

\* C19 witness: the player to move has no connection, is still seated, and
\* the opponent's game:state reports that player's loss on time.
C19_Witness ==
    /\ last.ev = "game:state" /\ AckedOk(last)
    /\ last.acks[1].data.status = "timeout"
    /\ LET g == GameOf(rooms["A"])
           mover == IF g.chess.turn = "w" THEN g.whiteUserId ELSE g.blackUserId
       IN /\ ConnectionsOf(mover) = {}
          /\ mover \notin onlineUsers
          /\ mover \in SeqRange(rooms["A"].players)
          /\ roomByUserId[mover] = "A"
          /\ g.clockMs[g.chess.turn] = 0

\* C20: in every reachable state a user is in the online set iff the user
\* has an open connection, and the user's socket set is exactly the set of
\* those connections; so after a disconnect the user is online iff another
\* connection of the user is still open.
C20_OnlineIffConnected ==
    /\ \A u \in Users :
         /\ u \in onlineUsers <=> ConnectionsOf(u) # {}
         /\ MapGet(socketsByUserId, u) = ConnectionsOf(u)
         /\ isUserOnline(socketsByUserId, u) <=> u \in onlineUsers
    /\ \A u \in DOMAIN socketsByUserId : socketsByUserId[u] # {}
    /\ last.ev = "disconnect"
       => (Sender(last) \in onlineUsers <=> ConnectionsOf(Sender(last)) # {})

\* C20 witness: u1 closed connection s1 after s2 had been opened and is still
\* online through s2, while u2 closed its only connection and is offline.
C20_Witness ==
    /\ last.ev = "disconnect" /\ last.sock = "s1"
    /\ connected = {"s2"}
    /\ onlineUsers = {"u1"}
    /\ socketsByUserId = [u \in {"u1"} |-> {"s2"}]

\* C21: when a user seated in room r opens a connection, the connection is
\* subscribed to r (the handler joins before it emits), the first emission is
\* the current room:state of r, showing the user online, and, if r has a
\* game, the next one is game:state with the snapshot taken at that instant,
\* in which the side to move has been charged the time since lastTickAt; with
\* no game there is no game:state.
C21_ReconnectGetsState ==
    [][(last'.ev = "connection" /\ Sender(last') \in DOMAIN roomByUserId)
       => LET u == Sender(last')
              s == last'.sock
              r == roomByUserId[u]
              out == last'.out
          IN /\ r \in joined'[s]
             /\ s \in connected'
             /\ Len(out) >= 1
             /\ out[1] = Emit("room:state", r, getRoomState(rooms'[r], socketsByUserId'))
             /\ \E i \in 1..Len(out[1].data.players) :
                  out[1].data.players[i].userId = u /\ out[1].data.players[i].online
             /\ HasGame(rooms[r]) =>
                  LET g == GameOf(rooms[r]) IN
                  /\ Len(out) >= 2
                  /\ out[2].ev = "game:state" /\ out[2].to = r
                  /\ out[2].data = getGameSnapshot(rooms'[r], now')
                  /\ out[2].data.clockMs[Opposite(g.chess.turn)] = g.clockMs[Opposite(g.chess.turn)]
                  /\ out[2].data.clockMs[g.chess.turn]
                       = (IF g.lastTickAt # NoTick
                          THEN Max(0, g.clockMs[g.chess.turn] - (now - g.lastTickAt))
                          ELSE g.clockMs[g.chess.turn])
             /\ ~HasGame(rooms[r]) => ~Emitted(last', "game:state")]_vars

\* C21 witness: u2, to move, reconnects on its only connection after time
\* has passed and the game:state sent to the room shows u2's clock reduced.
C21_Witness ==
    /\ last.ev = "connection" /\ last.sock = "s3"
    /\ ConnectionsOf("u2") = {"s3"}
    /\ "A" \in joined["s3"]
    /\ Len(last.out) >= 2
    /\ last.out[2].ev = "game:state"
    /\ last.out[2].data.status = "active"
    /\ LET g == GameOf(rooms["A"])
           c == g.chess.turn
       IN /\ (IF c = "w" THEN g.whiteUserId ELSE g.blackUserId) = "u2"
          /\ last.out[2].data.clockMs[c] = INITIAL_CLOCK_MS - TickMs

\* The error of the first gate of invite:send that fails before the lookup,
\* gate by gate, "" if all four pass.
C22_EarlyGate(u, payload) ==
    LET target == TrimUser(payload.toUserId)
        named == payload.roomId # ""
        room == IF named THEN UpperTrim(payload.roomId)
                ELSE IF u \in DOMAIN roomByUserId THEN roomByUserId[u] ELSE ""
    IN CASE target = "" -> "Missing target user"
         [] target # "" /\ target = u -> "You cannot invite yourself"
         [] target \notin {"", u} /\ room = "" -> "Create or join a room first"
         [] target \notin {"", u} /\ room # ""
            /\ (room \notin DOMAIN rooms \/ u \notin SeqRange(rooms[room].players))
              -> "You are not in that room"
         [] OTHER -> ""

\* C22: invite:send acks the error of the first failing gate, in the order
\* target given, target is not the sender, a room resolves, the sender is
\* seated in it (these four before the lookup), the lookup finds an accepted
\* friendship, the target is online (when the lookup has settled); a failing
\* gate or a failed lookup delivers nothing; when all pass, one
\* invite:received for the resolved room goes to exactly the open connections
\* of the target.
C22_InviteGates ==
    [][(last'.ev = "invite:send")
       => IF inFlight \subseteq inFlight'
          THEN \* the handler up to the lookup
               LET gate == C22_EarlyGate(Sender(last'), last'.arg) IN
               /\ last'.out = <<>>
               /\ gate # "" => AckedErr(last', gate) /\ inFlight' = inFlight
               /\ gate = "" => last'.acks = <<>> /\ ~last'.done /\ inFlight' # inFlight
          ELSE \* the handler after the lookup settled
               \E h \in inFlight \ inFlight' :
                  LET lookup == last'.arg.lookup
                      target == h.toUserId
                  IN /\ h.sock = last'.sock
                     /\ lookup = "rejected" => last'.out = <<>>
                     /\ lookup = "strangers"
                        => /\ AckedErr(last', "You can only invite users from your friend list")
                           /\ last'.out = <<>>
                     /\ (lookup = "friends" /\ ConnectionsOf(target) = {})
                        => AckedErr(last', "Friend is offline") /\ last'.out = <<>>
                     /\ (lookup = "friends" /\ ConnectionsOf(target) # {})
                        => /\ AckedOk(last')
                           /\ last'.acks[1].data.roomId = h.roomId
                           /\ Len(last'.out) = 1
                           /\ last'.out[1].ev = "invite:received"
                           /\ last'.out[1].to = ConnectionsOf(target)
                           /\ last'.out[1].data.from = Sender(last')
                           /\ last'.out[1].data.roomId = h.roomId
                           /\ \A s \in last'.out[1].to : SocketUser(s) = target]_vars

\* C22 witness: an invite of u3 to u1 passed every gate and was delivered to
\* both connections of u1.
C22_Witness ==
    /\ last.ev = "invite:send" /\ AckedOk(last)
    /\ Sender(last) = "u3"
    /\ Len(last.out) = 1
    /\ last.out[1].ev = "invite:received"
    /\ last.out[1].to = {"s1", "s2"}
    /\ last.out[1].data.roomId = "A"


\* The handshake carries no usable token, or one that fails verification or
\* whose payload lacks a string userId, username or email.
C23_Refused(handshake) ==
    LET token == extractToken(handshake) IN
    \/ token = NoToken
    \/ Decode(token).throws
    \/ ~Decode(token).object
    \/ Decode(token).userId # "string"
    \/ Decode(token).username # "string"
    \/ Decode(token).email # "string"

C23_RefusedUntouched ==
    \A s \in Sockets, handshake \in Handshakes :
        (C23_Refused(handshake) /\ Handshake(s, handshake))
        => /\ last'.ev = "handshake"
           /\ last'.out = <<Emit("connect_error", {s}, [kind |-> "error", message |-> "Unauthorized"])>>
           /\ last'.acks = <<>>
           /\ UNCHANGED <<now, rooms, roomByUserId, socketsByUserId, onlineUsers,
                          rematchAcceptedByRoomId, connected, joined, inFlight>>
           /\ s \notin connected'

C23_OnlyAdmittedSocketsAct ==
    /\ \A s \in Sockets \ connected :
          /\ joined[s] = {}
          /\ \A u \in DOMAIN socketsByUserId : s \notin socketsByUserId[u]
    /\ (last.done /\ last.ev \in AckEvents) => last.sock \in connected

\* C23: a connection whose handshake carries no token, or a token that fails
\* verification or lacks a string userId, username or email, is refused with
\* "Unauthorized" and nothing else changes; a socket that was not admitted is in
\* no presence set and no room channel, and no event of it is handled.
C23_UnauthorizedRejected ==
    [] C23_OnlyAdmittedSocketsAct /\ [][C23_RefusedUntouched]_vars

\* A handshake whose token lacks the email was refused for a user who is
\* seated in a room and has no admitted socket.
C23_Witness ==
    /\ last.ev = "handshake"
    /\ extractToken(last.arg) = "noemail"
    /\ last.sock \notin connected
    /\ Sender(last) \in DOMAIN roomByUserId
    /\ Sender(last) \notin onlineUsers


\* The game of room r has agreedDraw set.
C24_Agreed(rms, r) == r \in DOMAIN rms /\ HasGame(rms[r]) /\ GameOf(rms[r]).agreedDraw

C24_AgreedOnlyByAcceptance ==
    \A r \in DOMAIN rooms' :
        (C24_Agreed(rooms', r) /\ ~C24_Agreed(rooms, r))
        => LET u == Sender(last')
               before == rooms[r]
               after == rooms'[r]
               g == GameOf(before)
               opponentUserId == IF g.whiteUserId = u THEN g.blackUserId ELSE g.whiteUserId
           IN
           /\ last'.ev = "game:draw:respond"
           /\ last'.arg.accept
           /\ AckedOk(last')
           /\ r \in DOMAIN rooms /\ HasGame(before)
           /\ u \in DOMAIN roomByUserId /\ roomByUserId[u] = r
           /\ u \in SeqRange(before.players) /\ u \in {g.whiteUserId, g.blackUserId}
           /\ getGameSnapshot(before, now).status = "active"
           /\ opponentUserId \in PendingDraw(g)
           /\ PendingDraw(GameOf(after)) = {}
           /\ \A k \in 0..MaxTicks :
                 /\ getGameSnapshot(after, now + k * TickMs).status = "draw"
                 /\ getGameSnapshot(after, now + k * TickMs).winnerColor = "none"
           /\ \E i \in 1..Len(last'.out) :
                 last'.out[i] = Emit("game:over", r, getGameSnapshot(after, now))

C25_NoUncaughtException == ~Threw(last)


C26_CreateOutcome ==
    last'.ev = "room:create"
    => LET u == Sender(last')
           s == last'.sock
       IN
       IF u \notin DOMAIN roomByUserId
       THEN /\ AckedOk(last')
            /\ \E r \in DOMAIN rooms' \ DOMAIN rooms :
                  /\ DOMAIN rooms' = DOMAIN rooms \cup {r}
                  /\ rooms'[r].id = r
                  /\ rooms'[r].players = <<u>>
                  /\ roomByUserId' = MapSet(roomByUserId, u, r)
                  /\ last'.acks[1].data.roomId = r
                  /\ r \in joined'[s]
            /\ \A q \in DOMAIN rooms : rooms'[q] = rooms[q]
       ELSE /\ AckedErr(last', "You are already in a room")
            /\ last'.out = <<>>
            /\ UNCHANGED <<now, rooms, roomByUserId, socketsByUserId, onlineUsers,
                           rematchAcceptedByRoomId, connected, joined, inFlight>>

\* C26: room:create by a user who is in no room is acked ok and adds one room,
\* under an id no room had before, whose only player is that user, leaving
\* every other room as it was (a seed naming an existing room is replaced by a
\* free id); room:create by a user who is in a room is refused with "You are
\* already in a room" and changes nothing.
C26_CreateFreshOrRefused == [][C26_CreateOutcome]_vars

\* A create whose seed named an existing room got another id, and the
\* existing room is still there with its player.
C26_Witness ==
    /\ last.ev = "room:create"
    /\ AckedOk(last)
    /\ last.arg.roomId = "a"
    /\ last.acks[1].data.roomId # "A"
    /\ "A" \in DOMAIN rooms
    /\ Sender(last) \notin SeqRange(rooms["A"].players)


\* The room a join names: the payload's id, trimmed and upper-cased.
C27_Named(l) == UpperTrim(l.arg.roomId)

C27_JoinRefusals ==
    (/\ last'.ev = "room:join"
     /\ C27_Named(last') \in DOMAIN rooms
     /\ Sender(last') \notin SeqRange(rooms[C27_Named(last')].players))
    => LET u == Sender(last')
           r == C27_Named(last')
           full == Len(rooms[r].players) >= 2
           elsewhere == u \in DOMAIN roomByUserId /\ roomByUserId[u] # r
       IN
       /\ (elsewhere /\ ~full) => AckedErr(last', "Leave your current room first")
       /\ (full /\ ~elsewhere) => AckedErr(last', "Room is full")
       /\ (full /\ elsewhere) => \/ AckedErr(last', "Leave your current room first")
                                 \/ AckedErr(last', "Room is full")
       /\ (full \/ elsewhere) => /\ last'.out = <<>>
                                 /\ UNCHANGED <<now, rooms, roomByUserId, socketsByUserId, onlineUsers,
                                                rematchAcceptedByRoomId, connected, joined, inFlight>>
       /\ (~full /\ ~elsewhere) => AckedOk(last')

\* C27: room:join of an existing room by a user who is not among its players
\* is refused with "Room is full" when the room has 2 players and with "Leave
\* your current room first" when the user is seated in another room (one of the
\* two when both hold); a refused join changes no players, no index entry and
\* no game; no room ever holds more than 2 players.
C27_JoinRefusedWhenFullOrElsewhere ==
    [](\A r \in DOMAIN rooms : Len(rooms[r].players) <= 2) /\ [][C27_JoinRefusals]_vars

\* A third user who is in no room was refused by a room with two players and
\* a game.
C27_Witness ==
    /\ last.ev = "room:join"
    /\ AckedErr(last, "Room is full")
    /\ Sender(last) \notin DOMAIN roomByUserId
    /\ C27_Named(last) \in DOMAIN rooms
    /\ Len(rooms[C27_Named(last)].players) = 2
    /\ HasGame(rooms[C27_Named(last)])


C28_MoveEmissions ==
    (last'.ev = "chess:move" /\ AckedOk(last'))
    => LET r == roomByUserId[Sender(last')]
           snap == getGameSnapshot(rooms'[r], now')
           out == last'.out
       IN
       /\ Len(out) >= 2
       /\ \A i \in 1..Len(out) : out[i].to = r
       /\ out[1] = Emit("chess:move", r, last'.acks[1].data)
       /\ out[2] = Emit("game:state", r, snap)
       /\ IF snap.status # "active"
          THEN Len(out) = 3 /\ out[3] = Emit("game:over", r, snap)
          ELSE Len(out) = 2

\* C28: the handler of an accepted chess:move emits to the room, in this
\* order, chess:move, game:state and, when the move made the game terminal,
\* game:over with the terminal snapshot; for an accepted move that leaves the
\* game active it emits chess:move and game:state and no game:over.
C28_MoveThenStateThenOver == [][C28_MoveEmissions]_vars

\* The mating move was accepted after time had passed.
C28_Witness ==
    /\ last.ev = "chess:move"
    /\ AckedOk(last)
    /\ Len(last.out) = 3
    /\ last.out[3].ev = "game:over"
    /\ last.out[3].data.status = "checkmate"
    /\ now > StartNow

\* An accepted move left the game active.
C28_WitnessActive ==
    /\ last.ev = "chess:move"
    /\ AckedOk(last)
    /\ Len(last.out) = 2
    /\ last.out[2].data.status = "active"


\* The game of the room has been seen over by a snapshot: its clock is stopped
\* and its status is not active.
C29_Over(room) ==
    /\ HasGame(room)
    /\ SnapExists(room)
    /\ GameOf(room).lastTickAt = NoTick
    /\ SnapStatus(GameOf(room)) # "active"

\* The snapshots a handler run handed out: in its ack and in its emissions.
C29_Snapshots(l) ==
    {l.acks[i].data : i \in {n \in 1..Len(l.acks) : l.acks[n].data.kind = "snapshot"}}
    \cup {l.out[i].data : i \in {n \in 1..Len(l.out) : l.out[n].data.kind = "snapshot"}}

\* A snapshot that reports a game over leaves the game marked over with that
\* status and winner.
C29_ReportedIsKept ==
    \A snap \in C29_Snapshots(last') :
        snap.status # "active"
        => /\ snap.roomId \in DOMAIN rooms'
           /\ C29_Over(rooms'[snap.roomId])
           /\ SnapStatus(GameOf(rooms'[snap.roomId])) = snap.status
           /\ SnapWinner(GameOf(rooms'[snap.roomId])) = snap.winnerColor

\* A game that is over stays over with the same status and winner, and every
\* snapshot handed out says so, unless this step starts a rematch or clears
\* the game.
C29_OverStays ==
    \A r \in DOMAIN rooms :
        (/\ C29_Over(rooms[r])
         /\ r \in DOMAIN rooms' /\ HasGame(rooms'[r])
         /\ ~Emitted(last', "game:start"))
        => /\ C29_Over(rooms'[r])
           /\ SnapStatus(GameOf(rooms'[r])) = SnapStatus(GameOf(rooms[r]))
           /\ SnapWinner(GameOf(rooms'[r])) = SnapWinner(GameOf(rooms[r]))
           /\ \A snap \in C29_Snapshots(last') :
                 snap.roomId = r => /\ snap.status = SnapStatus(GameOf(rooms[r]))
                                    /\ snap.winnerColor = SnapWinner(GameOf(rooms[r]))

\* A game that is over reports the same status and winner at every later time.
C29_OverAtAnyTime ==
    \A r \in DOMAIN rooms :
        C29_Over(rooms[r])
        => \A k \in 0..(MaxTicks + 1) :
              /\ getGameSnapshot(rooms[r], now + k * TickMs).status = SnapStatus(GameOf(rooms[r]))
              /\ getGameSnapshot(rooms[r], now + k * TickMs).winnerColor = SnapWinner(GameOf(rooms[r]))

\* C29: once a snapshot of a game has reported a status other than active,
\* every later snapshot of that game reports the same status and the same
\* winnerColor, whatever events arrive and however much time passes, until a
\* rematch replaces the game or a leave clears it.
C29_TerminalIsAbsorbing ==
    [] C29_OverAtAnyTime /\ [][C29_ReportedIsKept /\ C29_OverStays]_vars

\* A game that ended by checkmate while the loser's clock was running was
\* asked for its state after that clock would have run out.
C29_Witness ==
    /\ last.ev = "game:state"
    /\ AckedOk(last)
    /\ last.acks[1].data.status = "checkmate"
    /\ now = StartNow + MaxTicks * TickMs
    /\ last.acks[1].data.clockMs["w"] > 0
    /\ last.acks[1].data.clockMs["b"] > 0


\* This step is the first whose snapshot sees the game of room r over: the
\* game was not marked over before and is marked over after.
C30_FirstSeenOver(r) ==
    /\ r \in DOMAIN rooms /\ HasGame(rooms[r]) /\ ~C29_Over(rooms[r])
    /\ r \in DOMAIN rooms' /\ C29_Over(rooms'[r])

\* The handler broadcast game:over with the terminal snapshot to room r.
C30_BroadcastOver(r) ==
    \E i \in 1..Len(last'.out) :
        last'.out[i] = Emit("game:over", r, getGameSnapshot(rooms'[r], now'))

\* C30: whenever a handler's snapshot is the first to see a game over (in
\* particular a clock expiry found by a game:state request or a rematch
\* request), that handler broadcasts game:over with the terminal snapshot to
\* the room.
C30_FirstObserverBroadcasts ==
    [][\A r \in RoomIds : C30_FirstSeenOver(r) => C30_BroadcastOver(r)]_vars

C30_WhoBroadcasts ==
    \A r \in RoomIds :
        C30_FirstSeenOver(r)
        => \/ /\ last'.ev \in {"chess:move", "connection"}
              /\ C30_BroadcastOver(r)
           \/ /\ last'.ev = "game:state"
              /\ last'.acks = <<AckOk(getGameSnapshot(rooms'[r], now'))>>
              /\ last'.out = <<>>
           \/ /\ last'.ev \in RematchEvents
              /\ ~Emitted(last', "game:over")

\* C30 as it holds: when a handler's snapshot is the first to see a game over,
\* game:over with the terminal snapshot is broadcast to the room if the
\* handler is chess:move (the move that ends the game, or a move refused with
\* "Game is already over") or the connection handler of a returning player;
\* game:state returns the terminal snapshot to the caller and emits nothing,
\* and the rematch handlers emit no game:over.
C30_MoveOrConnectBroadcasts == [][C30_WhoBroadcasts]_vars

\* A game:state request found the clock run out and told only the caller.
C30_Witness ==
    /\ last.ev = "game:state"
    /\ AckedOk(last)
    /\ last.acks[1].data.status = "timeout"
    /\ last.out = <<>>
    /\ C29_Over(rooms["A"])


\* C31: a connection is subscribed to a room's channel only if its user is
\* seated in that room; in particular, after room:leave none of the leaving
\* user's connections is still subscribed to the room.
C31_SubscribedOnlyIfSeated ==
    \A s \in Sockets : \A r \in joined[s] :
        /\ SocketUser(s) \in DOMAIN roomByUserId
        /\ roomByUserId[SocketUser(s)] = r


\* C32: every open connection of a seated user is subscribed to the channel
\* of the user's room, also a connection that was opened before the user
\* created or joined the room from another connection.
C32_SeatedMeansSubscribed ==
    \A s \in connected :
        SocketUser(s) \in DOMAIN roomByUserId => roomByUserId[SocketUser(s)] \in joined[s]


\* C33: between handlers a room has exactly 2 players iff it has a game, and
\* a room:state request never returns the status "ready".
C33_TwoPlayersIffGame ==
    /\ \A r \in DOMAIN rooms : (Len(rooms[r].players) = 2) <=> HasGame(rooms[r])
    /\ (last.ev = "room:state" /\ AckedOk(last)) => last.acks[1].data.status # "ready"

\* A room:state request was answered with "playing" while a room has a fresh
\* game in which the player who joined second is white.
C33_Witness ==
    /\ last.ev = "room:state"
    /\ AckedOk(last)
    /\ last.acks[1].data.status = "playing"
    /\ Len(last.acks[1].data.players) = 2
    /\ \E r \in DOMAIN rooms :
          /\ HasGame(rooms[r])
          /\ GameOf(rooms[r]).chess = NewChess
          /\ GameOf(rooms[r]).whiteUserId = rooms[r].players[2]


C34_PendingIsOfEndedGame ==
    \A r \in DOMAIN rematchAcceptedByRoomId :
        rematchAcceptedByRoomId[r] # {}
        => /\ r \in DOMAIN rooms
           /\ HasGame(rooms[r])
           /\ SnapExists(rooms[r])
           /\ getGameSnapshot(rooms[r], now).status # "active"
           /\ rematchAcceptedByRoomId[r] \subseteq
                 {GameOf(rooms[r]).whiteUserId, GameOf(rooms[r]).blackUserId}

C34_PendingCleared ==
    /\ \A i \in 1..Len(last'.out) :
          last'.out[i].ev = "game:start" => MapGet(rematchAcceptedByRoomId', last'.out[i].to) = {}
    /\ (last'.ev = "room:leave" /\ AckedOk(last'))
          => MapGet(rematchAcceptedByRoomId', roomByUserId[Sender(last')]) = {}
    /\ \A r \in DOMAIN rooms' \ DOMAIN rooms : MapGet(rematchAcceptedByRoomId', r) = {}

\* C34: a non-empty pending rematch set belongs to an existing room that has
\* a game whose status is not active, and holds only the white or the black
\* player of that game; the set of a room is empty after a game was started in
\* it, after a player left it, and when a room is created under its id.
C34_PendingRematchWellFormed ==
    [] C34_PendingIsOfEndedGame /\ [][C34_PendingCleared]_vars

\* A rematch request is pending in a room whose game ended, while another
\* room exists.
C34_Witness ==
    /\ last.ev = "game:rematch:request"
    /\ AckedOk(last)
    /\ \E r \in DOMAIN rematchAcceptedByRoomId :
          /\ rematchAcceptedByRoomId[r] = {Sender(last)}
          /\ getGameSnapshot(rooms[r], now).status = "checkmate"
    /\ Cardinality(DOMAIN rooms) = 2


\* The step is a game:rematch:respond with accept=true of a player of the
\* ended game of room r whose opponent is (pending = TRUE) or is not
\* (pending = FALSE) in the pending rematch set.
C35_Accepts(r, pending) ==
    LET u == Sender(last') IN
    /\ last'.ev = "game:rematch:respond"
    /\ last'.arg.accept
    /\ u \in DOMAIN roomByUserId /\ roomByUserId[u] = r
    /\ getEndedGameRoom(rooms, r, now)
    /\ u \in {GameOf(rooms[r]).whiteUserId, GameOf(rooms[r]).blackUserId}
    /\ pending = (({GameOf(rooms[r]).whiteUserId, GameOf(rooms[r]).blackUserId} \ {u})
                     \subseteq MapGet(rematchAcceptedByRoomId, r))

\* C35: game:rematch:respond with accept=true succeeds only when the opponent
\* has a pending rematch request; when the pending set does not contain the
\* opponent it is refused with "No rematch request to respond to" and the
\* pending set is unchanged.
C35_AcceptNeedsRequest ==
    [][\A r \in RoomIds :
          C35_Accepts(r, FALSE)
          => /\ AckedErr(last', "No rematch request to respond to")
             /\ UNCHANGED rematchAcceptedByRoomId]_vars

C35_AcceptOutcome ==
    /\ \A r \in RoomIds :
          /\ C35_Accepts(r, FALSE)
             => /\ last'.acks = <<AckOk([kind |-> "rematch", started |-> FALSE])>>
                /\ last'.out = <<>>
                /\ rematchAcceptedByRoomId' =
                      MapSet(rematchAcceptedByRoomId, r,
                             MapGet(rematchAcceptedByRoomId, r) \cup {Sender(last')})
          /\ C35_Accepts(r, TRUE)
             => /\ last'.acks = <<AckOk([kind |-> "rematch", started |-> TRUE])>>
                /\ Emitted(last', "game:start")
                /\ MapGet(rematchAcceptedByRoomId', r) = {}
    /\ (last'.ev = "game:rematch:respond" /\ Sender(last') \in DOMAIN roomByUserId)
          => (AckedErr(last', "No rematch request to respond to")
                <=> ~getEndedGameRoom(rooms, roomByUserId[Sender(last')], now))

\* C35 as it holds: game:rematch:respond with accept=true of a player of an
\* ended game is always acked ok; if the opponent is in the pending set the
\* rematch starts, otherwise the responder is added to the pending set, the
\* ack says started=false and nothing is emitted.  "No rematch request to
\* respond to" is the answer exactly when the sender's room has no ended game.
C35_AcceptActsAsRequest == [][C35_AcceptOutcome]_vars

\* An accept without a request of the opponent left the responder pending.
C35_Witness ==
    /\ last.ev = "game:rematch:respond"
    /\ last.arg.accept
    /\ last.acks = <<AckOk([kind |-> "rematch", started |-> FALSE])>>
    /\ \E r \in DOMAIN rematchAcceptedByRoomId : rematchAcceptedByRoomId[r] = {Sender(last)}


\* Every invite:received the last handler run delivered names an existing
\* room in which the inviter is seated.
C36_DeliveredForSeatedInviter ==
    \A i \in 1..Len(last.out) :
        last.out[i].ev = "invite:received"
        => /\ last.out[i].data.roomId \in DOMAIN rooms
           /\ last.out[i].data.from \in SeqRange(rooms[last.out[i].data.roomId].players)

\* A step of invite:send (up to the lookup, or after it) changes no room, no
\* index entry, no game and no presence.
C36_InviteChangesNothing ==
    last'.ev = "invite:send"
    => UNCHANGED <<now, rooms, roomByUserId, socketsByUserId, onlineUsers,
                   rematchAcceptedByRoomId, connected, joined>>

\* invite:send leaves rooms, index, games and presence unchanged on every path.
C36_InviteLeavesStateUnchanged == [][C36_InviteChangesNothing]_vars

\* C36: when invite:received is delivered the room named in the invite exists
\* and the inviter is seated in it, whatever happened while the friendship
\* lookup was pending; and invite:send changes no room, index entry, game or
\* presence.
C36_InviteNamesLiveRoom ==
    [] C36_DeliveredForSeatedInviter /\ [][C36_InviteChangesNothing]_vars


C37_RejoinChangesNothing ==
    (/\ last'.ev = "room:join"
     /\ UpperTrim(last'.arg.roomId) \in DOMAIN rooms
     /\ Sender(last') \in SeqRange(rooms[UpperTrim(last'.arg.roomId)].players))
    => LET r == UpperTrim(last'.arg.roomId) IN
       /\ last'.acks = <<AckOk(getRoomState(rooms[r], socketsByUserId))>>
       /\ last'.out = <<Emit("room:state", r, getRoomState(rooms[r], socketsByUserId))>>
       /\ UNCHANGED <<rooms, roomByUserId, rematchAcceptedByRoomId>>

\* C37: room:join of a room by a user who is seated in it is acked ok with the
\* room's state and changes nothing of the room: the player order, the game
\* with its colors, position and clocks, and the pending rematch set stay as
\* they are, and no game is started.
C37_RejoinIsIdempotent == [][C37_RejoinChangesNothing]_vars

\* The player who joined second rejoined a room whose ended game has a
\* pending rematch request, after time had passed.
C37_Witness ==
    /\ last.ev = "room:join"
    /\ AckedOk(last)
    /\ "A" \in DOMAIN rooms
    /\ Len(rooms["A"].players) = 2
    /\ Sender(last) = rooms["A"].players[1]
    /\ HasGame(rooms["A"])
    /\ MapGet(rematchAcceptedByRoomId, "A") # {}
    /\ now > StartNow

====
